---- MODULE Spec2Model ----
(***************************************************************************)
(* AirChat room session engine: the Socket.io server (server.js) that      *)
(* keeps the active-room table, the stage (mic) list, the moderation       *)
(* handlers and the connection registry.                                   *)
(*                                                                         *)
(* A handler runs without interruption up to its first await on the        *)
(* external store; what follows the await is a continuation kept in        *)
(* `tasks` and resumed by a later step, so handlers interleave exactly at  *)
(* their awaits.  A store write is issued with the value computed at the   *)
(* call, and is taken to land in issue order.                              *)
(***************************************************************************)
EXTENDS Integers, Sequences, FiniteSets, TLC

\* ---- bounds of the model
NumUsers == 3
NumRooms == 1
\* room ids beyond those, used only by the runs that move users between rooms
NumSpareRooms == 1
\* the stage has 10 mic chairs in the code; the model scales the stage down
NumMics  == 2
\* handlers suspended at an await at the same time
MaxTasks == 1
\* the message history keeps 50 entries in the code; the model scales it down
HistoryCap == 3
\* messages and announcements stamped in one run
MaxMessages == 5
\* timer ids the browser hands out before reusing one
MaxTimers == 2
\* speaking events sent in one run
MaxEvents == 5
\* distinct signaling payloads (offer, answer or candidate bodies)
NumPayloads == 2
\* browsers in the voice mesh
NumPeers == 2
\* server messages waiting at one browser
MaxInbox == 2

Users == 1..NumUsers
\* one browser connection per user; a request's payload may still name any user
Conns == Users
Rooms == 1..NumRooms
\* the rooms the server can host: those the single-room runs use, and the spare ones
AllRooms == 1..(NumRooms + NumSpareRooms)
None  == 0

Roles == {"member", "moderator", "admin"}
Actions == {"mute", "unmute", "kick", "ban", "assignModerator", "removeModerator", "other"}

VARIABLES
    activeRooms,   \* roomId -> room object (exists = FALSE: no entry in the table)
    userSockets,   \* userId -> socket id
    socketToUser,  \* socket id -> userId
    connected,     \* socket id -> the socket is open
    joined,        \* socket id -> the broadcast groups (socket.io rooms) it is in
    profiles,      \* external store, users collection
    roomStore,     \* external store, rooms collection
    tasks,         \* handlers suspended at an await
    emitted,       \* what the last handler step sent, in order
    \* the in-memory server of part_005 (its own activeRooms is hubRooms here)
    activeUsers,   \* socket id -> the entry made on connection
    hubRooms,      \* roomId -> {users, messages}
    hubClock,      \* messages stamped so far
    hubSent,       \* what the last handler step of that server sent
    \* the speaking detector of one browser (webrtc.js)
    processing,    \* the scriptProcessor is connected
    volume,        \* the volume computed from the last buffer, in hundredths
    isSpeaking,    \* the committed speaking status
    speakingTimeout, \* the stored timer handle, None when null
    timers,        \* the browser's pending timers set by the detector
    speakingLog,   \* the speaking events sent to the server, in order
    \* the voice mesh: webrtc.js in every browser of one room
    present,       \* the browsers that joined the room
    currentRoomUsers, \* browser -> the users it shows in the room
    localStream,   \* browser -> the microphone is being captured
    micWanted,     \* browser -> the user has switched the microphone on
    peerConnections, \* browser -> remote user -> the link object
    inbox,         \* browser -> the server messages on their way to it
    jobs,          \* webrtc.js functions suspended at an await
    switchedOff    \* browser -> the users that held a link to it when it last
                   \* switched its microphone off (history)

serverVars == <<activeRooms, userSockets, socketToUser, connected, joined,
                profiles, roomStore, tasks, emitted>>

hubVars == <<activeUsers, hubRooms, hubClock, hubSent>>

detectorVars == <<processing, volume, isSpeaking, speakingTimeout, timers, speakingLog>>

meshVars == <<present, currentRoomUsers, localStream, micWanted, peerConnections,
              inbox, jobs, switchedOff>>

vars == <<serverVars, hubVars, detectorVars, meshVars>>

\* a step of one program leaves the other programs' state alone
ServerStep == UNCHANGED <<hubVars, detectorVars, meshVars>>

\* ---- objects
Peers == 1..NumPeers

\* no entry in peerConnections; a link has its signaling state, whether a
\* candidate of the remote side was added and whether its own was sent
NoLink == [state |-> "none", ice |-> FALSE, sent |-> FALSE]

AbsentUser ==
    [in |-> FALSE, role |-> "member", isMuted |-> FALSE, isOnStage |-> FALSE,
     micIndex |-> 0, canMicAscent |-> TRUE]

NoRoom ==
    [exists |-> FALSE, users |-> [u \in Users |-> AbsentUser], stageUsers |-> <<>>,
     micLock |-> FALSE, moderators |-> {}]

NoTask == [kind |-> "none", c |-> None, r |-> None, u |-> None, t |-> None,
           action |-> "other", stale |-> FALSE]

Members(room) == {u \in Users : room.users[u].in}

StageIds(room) == {room.stageUsers[i].id : i \in 1..Len(room.stageUsers)}

StageIndices(room) == {room.stageUsers[i].micIndex : i \in 1..Len(room.stageUsers)}

\* stageUsers.filter(u => u.id !== userId)
FilterStage(stage, userId) == SelectSeq(stage, LAMBDA e : e.id # userId)

\* delete room.users[userId]; room.stageUsers = room.stageUsers.filter(...)
RemoveUser(room, userId) ==
    [room EXCEPT !.users[userId] = AbsentUser,
                 !.stageUsers = FilterStage(@, userId)]

\* io.to(roomId): the open sockets that are in the broadcast group
GroupOf(conn, jn, r) == {c \in Conns : conn[c] /\ r \in jn[c]}

Group(r) == GroupOf(connected, joined, r)

Emit(ev, to, arg) ==
    [ev |-> ev, to |-> to, arg |-> arg, action |-> "", ok |-> TRUE, msg |-> "", room |-> None]

\* socket.emit('moderationUpdate', {targetUserId, action, success, message})
ModerationUpdate(c, target, action, ok, msg) ==
    [ev |-> "moderationUpdate", to |-> IF connected[c] THEN {c} ELSE {},
     arg |-> target, action |-> action, ok |-> ok, msg |-> msg, room |-> None]

LeaveEmits(grp, userId, n) ==
    << Emit("userLeft", grp, userId), Emit("userLeftRoom", grp, userId),
       Emit("onlineCountUpdate", grp, n) >>

\* a continuation that holds a reference to the room object of r keeps mutating
\* that object after the table entry is deleted or replaced
MarkStale(ts, r) ==
    {IF t.kind = "ban" /\ t.r = r THEN [t EXCEPT !.stale = TRUE] ELSE t : t \in ts}

Suspend(ts, t) == ts \cup {t}

CanSuspend == Cardinality(tasks) < MaxTasks

\* activeUsers[socket.id] = {userId: null, roomId: null, isMuted: false, isAdmin: false, ...}
NewUser == [on |-> TRUE, userId |-> None, roomId |-> None, isAdmin |-> FALSE]

\* no entry in the table of part_005
NoHubRoom == [exists |-> FALSE, users |-> {}, messages |-> <<>>]

\* ---- initial state: server started, every browser connected, nothing joined
InitProfile(u) ==
    [role |-> IF u = 1 THEN "admin" ELSE IF u = 2 THEN "moderator" ELSE "member",
     canMicAscent |-> TRUE, isBanned |-> FALSE]

Init ==
    /\ activeRooms = [r \in AllRooms |-> NoRoom]
    /\ userSockets = [u \in Users |-> None]
    /\ socketToUser = [c \in Conns |-> None]
    /\ connected = [c \in Conns |-> TRUE]
    /\ joined = [c \in Conns |-> {}]
    /\ profiles = [u \in Users |-> InitProfile(u)]
    /\ roomStore = [r \in AllRooms |-> [stageUsers |-> <<>>, micLock |-> FALSE]]
    /\ tasks = {}
    /\ emitted = <<>>
    /\ activeUsers = [c \in Conns |-> NewUser]
    /\ hubRooms = [r \in AllRooms |-> NoHubRoom]
    /\ hubClock = 0
    /\ hubSent = <<>>
    /\ processing = FALSE
    /\ volume = 0
    /\ isSpeaking = FALSE
    /\ speakingTimeout = None
    /\ timers = {}
    /\ speakingLog = <<>>
    /\ present = {}
    /\ currentRoomUsers = [p \in Peers |-> {}]
    /\ localStream = [p \in Peers |-> FALSE]
    /\ micWanted = [p \in Peers |-> FALSE]
    /\ peerConnections = [p \in Peers |-> [q \in Peers |-> NoLink]]
    /\ inbox = [p \in Peers |-> <<>>]
    /\ jobs = {}
    /\ switchedOff = [p \in Peers |-> {}]

\* ---- socket.on('userConnected'): the client sends its own identity; the
\* profile write repeats the stored fields
UserConnected(c) ==
    /\ connected[c]
    /\ socketToUser' = [socketToUser EXCEPT ![c] = c]
    /\ userSockets' = [userSockets EXCEPT ![c] = c]
    /\ emitted' = <<>>
    /\ UNCHANGED <<activeRooms, connected, joined, profiles, roomStore, tasks>>
    /\ ServerStep

\* ---- socket.on('joinRoom')
\* up to the first await: socket.join, then getRoomData (room absent) or
\* getUserProfile (room present)
JoinRoom(c, r, u) ==
    /\ connected[c]
    /\ CanSuspend
    /\ joined' = [joined EXCEPT ![c] = @ \cup {r}]
    /\ tasks' = Suspend(tasks,
                  [NoTask EXCEPT !.kind = IF activeRooms[r].exists
                                         THEN "joinProfile" ELSE "joinCreate",
                                 !.c = c, !.r = r, !.u = u])
    /\ emitted' = <<>>
    /\ UNCHANGED <<activeRooms, userSockets, socketToUser, connected, profiles, roomStore>>
    /\ ServerStep

\* after getRoomData: the table entry is (re)built from the stored room
NewRoom(r) ==
    [NoRoom EXCEPT !.exists = TRUE,
                   !.stageUsers = roomStore[r].stageUsers,
                   !.micLock = roomStore[r].micLock]

JoinCreateRoom(t) ==
    /\ t \in tasks /\ t.kind = "joinCreate"
    /\ activeRooms' = [activeRooms EXCEPT ![t.r] = NewRoom(t.r)]
    /\ tasks' = (MarkStale(tasks, t.r) \ {t}) \cup {[t EXCEPT !.kind = "joinMessages"]}
    /\ emitted' = <<>>
    /\ UNCHANGED <<userSockets, socketToUser, connected, joined, profiles, roomStore>>
    /\ ServerStep

\* after the messages query: activeRooms[roomId].chatMessages = ... throws when
\* the entry is gone, and the handler ends there
JoinLoadMessages(t) ==
    /\ t \in tasks /\ t.kind = "joinMessages"
    /\ tasks' = IF activeRooms[t.r].exists
                THEN (tasks \ {t}) \cup {[t EXCEPT !.kind = "joinProfile"]}
                ELSE tasks \ {t}
    /\ emitted' = <<>>
    /\ UNCHANGED <<activeRooms, userSockets, socketToUser, connected, joined,
                   profiles, roomStore>>
    /\ ServerStep

\* the member object built from the stored profile
NewMember(room, u) ==
    [in |-> TRUE, role |-> profiles[u].role, isMuted |-> FALSE,
     isOnStage |-> u \in StageIds(room), micIndex |-> 0,
     canMicAscent |-> profiles[u].canMicAscent]

JoinAddUser(t) ==
    /\ t \in tasks /\ t.kind = "joinProfile"
    /\ tasks' = tasks \ {t}
    /\ IF activeRooms[t.r].exists
       THEN LET room == [activeRooms[t.r] EXCEPT !.users[t.u] = NewMember(activeRooms[t.r], t.u)]
                grp == Group(t.r)
                n == Cardinality(Members(room))
            IN /\ activeRooms' = [activeRooms EXCEPT ![t.r] = room]
               /\ emitted' = << Emit("userJoined", grp, t.u),
                                Emit("userJoinedRoom", grp, t.u),
                                Emit("roomStateUpdate", IF connected[t.c] THEN {t.c} ELSE {}, 0),
                                Emit("onlineCountUpdate", grp, n) >>
       ELSE /\ emitted' = <<>>
            /\ UNCHANGED activeRooms
    /\ UNCHANGED <<userSockets, socketToUser, connected, joined, profiles, roomStore>>
    /\ ServerStep

\* exitRoom without the membership test of its guard
ExitRoomAnyUser(c, r) ==
    /\ connected[c]
    /\ LET userId == socketToUser[c]
           room == activeRooms[r]
       IN IF userId = None \/ ~room.exists
          THEN /\ emitted' = <<>>
               /\ UNCHANGED <<activeRooms, joined, tasks>>
          ELSE LET left == RemoveUser(room, userId)
                   grp == Group(r) \ {c}
                   empty == Members(left) = {}
               IN /\ joined' = [joined EXCEPT ![c] = @ \ {r}]
                  /\ activeRooms' = [activeRooms EXCEPT ![r] = IF empty THEN NoRoom ELSE left]
                  /\ tasks' = IF empty THEN MarkStale(tasks, r) ELSE tasks
                  /\ emitted' = LeaveEmits(grp, userId, Cardinality(Members(left)))
    /\ UNCHANGED <<userSockets, socketToUser, connected, profiles, roomStore>>
    /\ ServerStep

\* ---- socket.on('exitRoom')
ExitRoom(c, r) ==
    /\ connected[c]
    /\ LET userId == socketToUser[c]
           room == activeRooms[r]
       IN IF userId = None \/ ~room.exists \/ ~room.users[userId].in
          THEN /\ emitted' = <<>>
               /\ UNCHANGED <<activeRooms, joined, tasks>>
          ELSE LET left == RemoveUser(room, userId)
                   grp == Group(r) \ {c}
                   empty == Members(left) = {}
               IN /\ joined' = [joined EXCEPT ![c] = @ \ {r}]
                  /\ activeRooms' = [activeRooms EXCEPT ![r] = IF empty THEN NoRoom ELSE left]
                  /\ tasks' = IF empty THEN MarkStale(tasks, r) ELSE tasks
                  /\ emitted' = LeaveEmits(grp, userId, Cardinality(Members(left)))
    /\ UNCHANGED <<userSockets, socketToUser, connected, profiles, roomStore>>
    /\ ServerStep

\* ---- socket.on('disconnect'): socket.io has already taken the socket out of
\* every broadcast group when the handler runs
RoomsOf(rooms, userId) == {r \in AllRooms : rooms[r].exists /\ rooms[r].users[userId].in}

Disconnect(c) ==
    /\ connected[c]
    /\ connected' = [connected EXCEPT ![c] = FALSE]
    /\ joined' = [joined EXCEPT ![c] = {}]
    /\ LET userId == socketToUser[c]
       IN IF userId = None
          THEN /\ emitted' = <<>>
               /\ UNCHANGED <<activeRooms, tasks>>
          ELSE /\ CanSuspend
               /\ IF RoomsOf(activeRooms, userId) = {}
                  THEN /\ tasks' = Suspend(tasks, [NoTask EXCEPT !.kind = "disconnect",
                                                                 !.c = c, !.u = userId])
                       /\ emitted' = <<>>
                       /\ UNCHANGED activeRooms
                  ELSE \E r \in RoomsOf(activeRooms, userId) :
                         LET left == RemoveUser(activeRooms[r], userId)
                             grp == GroupOf(connected', joined', r)
                         IN /\ activeRooms' = [activeRooms EXCEPT ![r] = left]
                            /\ emitted' = LeaveEmits(grp, userId, Cardinality(Members(left)))
                            /\ tasks' = Suspend(tasks, [NoTask EXCEPT !.kind = "disconnect",
                                                          !.c = c, !.r = r, !.u = userId])
    /\ UNCHANGED <<userSockets, socketToUser, profiles, roomStore>>
    /\ ServerStep

\* after updateUserProfile: the empty room is deleted, then the registry entries;
\* activeRooms[roomIdToLeave].users throws when the entry is gone
DisconnectFinish(t) ==
    /\ t \in tasks /\ t.kind = "disconnect"
    /\ emitted' = <<>>
    /\ IF t.r # None /\ ~activeRooms[t.r].exists
       THEN /\ tasks' = tasks \ {t}
            /\ UNCHANGED <<activeRooms, userSockets, socketToUser>>
       ELSE LET empty == t.r # None /\ Members(activeRooms[t.r]) = {}
            IN /\ activeRooms' = IF empty THEN [activeRooms EXCEPT ![t.r] = NoRoom]
                                 ELSE activeRooms
               /\ tasks' = (IF empty THEN MarkStale(tasks, t.r) ELSE tasks) \ {t}
               /\ userSockets' = [userSockets EXCEPT ![t.u] = None]
               /\ socketToUser' = [socketToUser EXCEPT ![t.c] = None]
    /\ UNCHANGED <<connected, joined, profiles, roomStore>>
    /\ ServerStep

\* io.on('connection'): a browser that lost its socket opens a new one
Connect(c) ==
    /\ ~connected[c]
    /\ socketToUser[c] = None
    /\ \A u \in Users : userSockets[u] # c
    /\ \A t \in tasks : t.c # c
    /\ connected' = [connected EXCEPT ![c] = TRUE]
    /\ emitted' = <<>>
    /\ UNCHANGED <<activeRooms, userSockets, socketToUser, joined, profiles, roomStore, tasks>>
    /\ ServerStep

\* ---- socket.on('sendChatMessage')
SendChatMessage(c, r) ==
    /\ connected[c]
    /\ LET userId == socketToUser[c]
           room == activeRooms[r]
       IN emitted' = IF userId = None \/ ~room.exists \/ ~room.users[userId].in
                     THEN <<>>
                     ELSE << [Emit("chatMessage", Group(r), userId) EXCEPT !.action = "chat",
                                                                            !.room = r] >>
    /\ UNCHANGED <<activeRooms, userSockets, socketToUser, connected, joined,
                   profiles, roomStore, tasks>>
    /\ ServerStep

\* webrtcSignal broadcasting to every open socket instead of the target's
WebrtcSignalToAll(c, to, signal) ==
    /\ connected[c]
    /\ emitted' = IF userSockets[to] # None
                  THEN << Emit("webrtcSignal", {d \in Conns : connected[d]}, signal) >>
                  ELSE <<>>
    /\ UNCHANGED <<activeRooms, userSockets, socketToUser, connected, joined,
                   profiles, roomStore, tasks>>
    /\ ServerStep

\* ---- socket.on('webrtcSignal'): data = {to, from, signal}, forwarded as received
WebrtcSignal(c, to, signal) ==
    /\ connected[c]
    /\ LET targetSocketId == userSockets[to]
       IN emitted' = IF targetSocketId # None
                     THEN << Emit("webrtcSignal",
                                  IF connected[targetSocketId] THEN {targetSocketId} ELSE {},
                                  signal) >>
                     ELSE <<>>
    /\ UNCHANGED <<activeRooms, userSockets, socketToUser, connected, joined,
                   profiles, roomStore, tasks>>
    /\ ServerStep

\* ---- mic control and stage management
\* a staff test that knows the moderator role only
IsStaffModeratorOnly(user) == user.role = "moderator"

IsStaff(user) == user.role = "admin" \/ user.role = "moderator"

\* a slot search that counts the stage instead of looking at the indices held
FindFreeMicByCount(room) ==
    IF Len(room.stageUsers) < NumMics THEN Len(room.stageUsers) + 1 ELSE -1

\* a slot search that walks the indices downwards
FindFreeMicFromTop(room) ==
    IF \E i \in 1..NumMics : i \notin StageIndices(room)
    THEN CHOOSE i \in 1..NumMics :
            /\ i \notin StageIndices(room)
            /\ \A j \in (i + 1)..NumMics : j \in StageIndices(room)
    ELSE -1

\* for (let i = 1; i <= 10; i++) if (!room.stageUsers.some(u => u.micIndex === i)) ...
FindFreeMic(room) ==
    IF \E i \in 1..NumMics : i \notin StageIndices(room)
    THEN CHOOSE i \in 1..NumMics :
            /\ i \notin StageIndices(room)
            /\ \A j \in 1..(i - 1) : j \in StageIndices(room)
    ELSE -1

\* stageUsers.sort((a, b) => a.micIndex - b.micIndex): a stable sort
RECURSIVE SortStage(_)
SortStage(stage) ==
    IF Len(stage) <= 1 THEN stage
    ELSE LET sorted == SortStage(SubSeq(stage, 1, Len(stage) - 1))
             e == stage[Len(stage)]
             before == SelectSeq(sorted, LAMBDA x : x.micIndex <= e.micIndex)
             after == SelectSeq(sorted, LAMBDA x : x.micIndex > e.micIndex)
         IN before \o <<e>> \o after

\* stageUsers.map(u => ({ id: u.id, micIndex: u.micIndex })) written to the room document
SaveStage(r, stage) == [roomStore EXCEPT ![r].stageUsers = stage]

\* the refusals with the stage test moved to the front
AscentRefusalStageFirst(room, userId) ==
    IF ~room.exists \/ ~room.users[userId].in THEN "notFound"
    ELSE IF userId \in StageIds(room) THEN "alreadyOnStage"
    ELSE IF room.micLock /\ ~IsStaff(room.users[userId]) THEN "micLocked"
    ELSE IF room.users[userId].canMicAscent = FALSE THEN "ascentPrevented"
    ELSE IF FindFreeMic(room) = -1 THEN "noFreeMic"
    ELSE ""

\* the reason requestMicAscent refuses, "" when it grants
AscentRefusal(room, userId) ==
    IF ~room.exists \/ ~room.users[userId].in THEN "notFound"
    ELSE IF room.micLock /\ ~IsStaff(room.users[userId]) THEN "micLocked"
    ELSE IF room.users[userId].canMicAscent = FALSE THEN "ascentPrevented"
    ELSE IF userId \in StageIds(room) THEN "alreadyOnStage"
    ELSE IF FindFreeMic(room) = -1 THEN "noFreeMic"
    ELSE ""

RequestMicAscent(c, r, userId) ==
    /\ connected[c]
    /\ LET room == activeRooms[r]
           why == AscentRefusal(room, userId)
           micIndex == FindFreeMic(room)
           stage == SortStage(Append(room.stageUsers, [id |-> userId, micIndex |-> micIndex]))
       IN IF why # ""
          THEN /\ emitted' = << ModerationUpdate(c, userId, "micUp", FALSE, why) >>
               /\ UNCHANGED <<activeRooms, roomStore>>
          ELSE /\ activeRooms' = [activeRooms EXCEPT
                     ![r].users[userId].isOnStage = TRUE,
                     ![r].users[userId].micIndex = micIndex,
                     ![r].stageUsers = stage]
               /\ emitted' = << Emit("roomStateUpdate", Group(r), 0),
                                ModerationUpdate(c, userId, "micUp", TRUE, ""),
                                Emit("chatMessage", Group(r), micIndex) >>
               /\ roomStore' = SaveStage(r, stage)
    /\ UNCHANGED <<userSockets, socketToUser, connected, joined, profiles, tasks>>
    /\ ServerStep

RequestMicDescent(c, r, userId) ==
    /\ connected[c]
    /\ LET room == activeRooms[r]
       IN IF ~room.exists \/ ~room.users[userId].in
          THEN /\ emitted' = << ModerationUpdate(c, userId, "micDown", FALSE, "notFound") >>
               /\ UNCHANGED <<activeRooms, roomStore>>
          ELSE IF userId \notin StageIds(room)
          THEN /\ emitted' = << ModerationUpdate(c, userId, "micDown", FALSE, "notOnStage") >>
               /\ UNCHANGED <<activeRooms, roomStore>>
          ELSE LET stage == FilterStage(room.stageUsers, userId)
               IN /\ activeRooms' = [activeRooms EXCEPT
                        ![r].users[userId].isOnStage = FALSE,
                        ![r].users[userId].micIndex = 0,
                        ![r].stageUsers = stage]
                  /\ emitted' = << Emit("roomStateUpdate", Group(r), 0),
                                   ModerationUpdate(c, userId, "micDown", TRUE, ""),
                                   Emit("chatMessage", Group(r), 0) >>
                  /\ roomStore' = SaveStage(r, stage)
    /\ UNCHANGED <<userSockets, socketToUser, connected, joined, profiles, tasks>>
    /\ ServerStep

\* the requester of a privileged request: the member bound to the socket
Requester(c, r) ==
    IF socketToUser[c] # None /\ activeRooms[r].exists
    THEN activeRooms[r].users[socketToUser[c]]
    ELSE AbsentUser

ToggleMicLock(c, r, lock) ==
    /\ connected[c]
    /\ LET requester == Requester(c, r)
       IN IF ~requester.in \/ ~IsStaff(requester)
          THEN /\ emitted' = << ModerationUpdate(c, socketToUser[c], "toggleMicLock", FALSE, "forbidden") >>
               /\ UNCHANGED <<activeRooms, roomStore>>
          ELSE /\ activeRooms' = [activeRooms EXCEPT ![r].micLock = lock]
               /\ emitted' = << Emit("micLockUpdate", Group(r), IF lock THEN 1 ELSE 0),
                                Emit("chatMessage", Group(r), 0) >>
               /\ roomStore' = [roomStore EXCEPT ![r].micLock = lock]
    /\ UNCHANGED <<userSockets, socketToUser, connected, joined, profiles, tasks>>
    /\ ServerStep

TransferUserMic(c, r, targetUserId, newMicIndex) ==
    /\ connected[c]
    /\ LET requester == Requester(c, r)
           room == activeRooms[r]
           me == socketToUser[c]
       IN IF ~requester.in \/ ~room.users[targetUserId].in \/ ~IsStaff(requester)
          THEN /\ emitted' = << ModerationUpdate(c, me, "transferMic", FALSE, "forbidden") >>
               /\ UNCHANGED <<activeRooms, roomStore>>
          ELSE IF newMicIndex < 1 \/ newMicIndex > NumMics
          THEN /\ emitted' = << ModerationUpdate(c, me, "transferMic", FALSE, "badIndex") >>
               /\ UNCHANGED <<activeRooms, roomStore>>
          ELSE IF \E i \in 1..Len(room.stageUsers) :
                     /\ room.stageUsers[i].micIndex = newMicIndex
                     /\ room.stageUsers[i].id # targetUserId
          THEN /\ emitted' = << ModerationUpdate(c, me, "transferMic", FALSE, "occupied") >>
               /\ UNCHANGED <<activeRooms, roomStore>>
          ELSE LET stage == SortStage(Append(FilterStage(room.stageUsers, targetUserId),
                                             [id |-> targetUserId, micIndex |-> newMicIndex]))
               IN /\ activeRooms' = [activeRooms EXCEPT
                        ![r].users[targetUserId].isOnStage = TRUE,
                        ![r].users[targetUserId].micIndex = newMicIndex,
                        ![r].stageUsers = stage]
                  /\ emitted' = << Emit("roomStateUpdate", Group(r), 0),
                                   Emit("chatMessage", Group(r), newMicIndex),
                                   ModerationUpdate(c, me, "transferMic", TRUE, "") >>
                  /\ roomStore' = SaveStage(r, stage)
    /\ UNCHANGED <<userSockets, socketToUser, connected, joined, profiles, tasks>>
    /\ ServerStep

\* targetUser.canMicAscent = !prevent; await updateUserProfile(...); then the broadcasts
PreventMicAscent(c, r, targetUserId, prevent) ==
    /\ connected[c]
    /\ LET requester == Requester(c, r)
       IN IF ~requester.in \/ ~activeRooms[r].users[targetUserId].in \/ ~IsStaff(requester)
          THEN /\ emitted' = << ModerationUpdate(c, socketToUser[c], "preventMicAscent", FALSE, "forbidden") >>
               /\ UNCHANGED <<activeRooms, profiles, tasks>>
          ELSE /\ CanSuspend
               /\ activeRooms' = [activeRooms EXCEPT ![r].users[targetUserId].canMicAscent = ~prevent]
               /\ profiles' = [profiles EXCEPT ![targetUserId].canMicAscent = ~prevent]
               /\ tasks' = Suspend(tasks, [NoTask EXCEPT !.kind = "preventMicAscent", !.c = c,
                                             !.r = r, !.u = socketToUser[c], !.t = targetUserId])
               /\ emitted' = <<>>
    /\ UNCHANGED <<userSockets, socketToUser, connected, joined, roomStore>>
    /\ ServerStep

PreventMicAscentFinish(t) ==
    /\ t \in tasks /\ t.kind = "preventMicAscent"
    /\ tasks' = tasks \ {t}
    /\ emitted' = << Emit("roomStateUpdate", Group(t.r), 0),
                     Emit("chatMessage", Group(t.r), t.t),
                     ModerationUpdate(t.c, t.u, "preventMicAscent", TRUE, "") >>
    /\ UNCHANGED <<activeRooms, userSockets, socketToUser, connected, joined,
                   profiles, roomStore>>
    /\ ServerStep

\* ---- socket.on('moderateUser')
\* the check without its second half: the target's role is not looked at
ModerationDeniedRoleOnly(requester, targetUser) ==
    ~(requester.role = "moderator" \/ requester.role = "admin")

\* if (!isRequesterModerator || (!isRequesterAdmin && (isTargetAdmin || isTargetModerator)))
ModerationDenied(requester, targetUser) ==
    \/ ~(requester.role = "moderator" \/ requester.role = "admin")
    \/ /\ requester.role # "admin"
       /\ (targetUser.role = "admin" \/ targetUser.role = "moderator")

\* the success tail without the system chat line
SuccessEmitsNoChat(grp, actorTo, targetUserId, action) ==
    << Emit("roomStateUpdate", grp, 0),
       [ev |-> "moderationUpdate", to |-> actorTo, arg |-> targetUserId,
        action |-> action, ok |-> TRUE, msg |-> "", room |-> None] >>

\* the broadcasts that follow a successful action, then the answer to the actor
SuccessEmits(grp, actorTo, targetUserId, action) ==
    << Emit("roomStateUpdate", grp, 0),
       Emit("chatMessage", grp, targetUserId),
       [ev |-> "moderationUpdate", to |-> actorTo, arg |-> targetUserId,
        action |-> action, ok |-> TRUE, msg |-> "", room |-> None] >>

ModerateUser(c, r, targetUserId, action) ==
    /\ connected[c]
    /\ LET userId == socketToUser[c]
           room == activeRooms[r]
           requester == Requester(c, r)
           targetUser == room.users[targetUserId]
           tc == userSockets[targetUserId]
           sock == tc # None /\ connected[tc]
       IN IF ~room.exists \/ ~requester.in \/ ~targetUser.in
          THEN /\ emitted' = << ModerationUpdate(c, userId, action, FALSE, "notFound") >>
               /\ UNCHANGED <<activeRooms, joined, profiles, tasks>>
          ELSE IF ModerationDenied(requester, targetUser)
          THEN /\ emitted' = << ModerationUpdate(c, userId, action, FALSE, "forbidden") >>
               /\ UNCHANGED <<activeRooms, joined, profiles, tasks>>
          ELSE CASE action \in {"mute", "unmute"} ->
                    /\ activeRooms' = [activeRooms EXCEPT
                          ![r].users[targetUserId].isMuted = (action = "mute")]
                    /\ emitted' = << Emit("micStateUpdate", Group(r), targetUserId) >>
                                  \o SuccessEmits(Group(r), {c}, targetUserId, action)
                    /\ UNCHANGED <<joined, profiles, tasks>>
               [] action = "kick" ->
                    \* socket.to(...) leaves out the sender; the target's socket leaves the group
                    /\ joined' = IF sock THEN [joined EXCEPT ![tc] = @ \ {r}] ELSE joined
                    /\ activeRooms' = [activeRooms EXCEPT ![r] = RemoveUser(room, targetUserId)]
                    /\ LET grp == GroupOf(connected, joined', r)
                       IN emitted' =
                            << Emit("kickedFromRoom", IF sock /\ tc # c THEN {tc} ELSE {}, targetUserId) >>
                            \o LeaveEmits(grp, targetUserId,
                                          Cardinality(Members(activeRooms'[r])))
                            \o SuccessEmits(grp, {c}, targetUserId, action)
                    /\ UNCHANGED <<profiles, tasks>>
               [] action = "ban" ->
                    \* await updateUserProfile(targetUserId, { isBanned: true }) comes first
                    /\ CanSuspend
                    /\ profiles' = [profiles EXCEPT ![targetUserId].isBanned = TRUE]
                    /\ tasks' = Suspend(tasks, [NoTask EXCEPT !.kind = "ban", !.c = c, !.r = r,
                                                  !.u = userId, !.t = targetUserId, !.action = action])
                    /\ emitted' = <<>>
                    /\ UNCHANGED <<activeRooms, joined>>
               [] action \in {"assignModerator", "removeModerator"} ->
                    /\ CanSuspend
                    /\ activeRooms' = [activeRooms EXCEPT
                          ![r].users[targetUserId].role =
                              IF action = "assignModerator" THEN "moderator" ELSE "member",
                          ![r].moderators =
                              IF action = "assignModerator" THEN @ \cup {targetUserId}
                              ELSE @ \ {targetUserId}]
                    /\ profiles' = [profiles EXCEPT ![targetUserId].role =
                              IF action = "assignModerator" THEN "moderator" ELSE "member"]
                    /\ tasks' = Suspend(tasks, [NoTask EXCEPT !.kind = "role", !.c = c, !.r = r,
                                                  !.u = userId, !.t = targetUserId, !.action = action])
                    /\ emitted' = <<>>
                    /\ UNCHANGED joined
               [] OTHER ->
                    /\ emitted' = << ModerationUpdate(c, targetUserId, action, FALSE, "unknown") >>
                    /\ UNCHANGED <<activeRooms, joined, profiles, tasks>>
    /\ UNCHANGED <<userSockets, socketToUser, connected, roomStore>>
    /\ ServerStep

\* assignModerator / removeModerator after updateUserProfile
RoleFinish(t) ==
    /\ t \in tasks /\ t.kind = "role"
    /\ tasks' = tasks \ {t}
    /\ emitted' = << Emit("moderatorListUpdate", Group(t.r), t.t) >>
                  \o SuccessEmits(Group(t.r), IF connected[t.c] THEN {t.c} ELSE {}, t.t, t.action)
    /\ UNCHANGED <<activeRooms, userSockets, socketToUser, connected, joined,
                   profiles, roomStore>>
    /\ ServerStep

\* ban after updateUserProfile.  disconnect(true) closes the target's socket and
\* socket.io runs that socket's 'disconnect' handler, up to its await, inside the call
BanFinish(t) ==
    /\ t \in tasks /\ t.kind = "ban"
    /\ LET tc == userSockets[t.t]
           sock == tc # None /\ connected[tc]
           conn1 == IF sock THEN [connected EXCEPT ![tc] = FALSE] ELSE connected
           jn1 == IF sock THEN [joined EXCEPT ![tc] = {}] ELSE joined
           du == IF sock THEN socketToUser[tc] ELSE None
           in == IF du = None THEN {} ELSE RoomsOf(activeRooms, du)
       IN \E dr \in IF in = {} THEN {None} ELSE in :
            LET rooms1 == IF dr = None THEN activeRooms
                          ELSE [activeRooms EXCEPT ![dr] = RemoveUser(@, du)]
                discEmits == IF dr = None THEN <<>>
                             ELSE LeaveEmits(GroupOf(conn1, jn1, dr), du,
                                             Cardinality(Members(rooms1[dr])))
                discTask == IF du = None THEN {}
                            ELSE {[NoTask EXCEPT !.kind = "disconnect", !.c = tc,
                                                 !.r = dr, !.u = du]}
                \* delete room.users[...] on the room object the handler holds
                rooms2 == IF t.stale THEN rooms1
                          ELSE [rooms1 EXCEPT ![t.r] = RemoveUser(@, t.t)]
                grp == GroupOf(conn1, jn1, t.r)
                n == IF t.stale THEN 0 ELSE Cardinality(Members(rooms2[t.r]))
            IN /\ activeRooms' = rooms2
               /\ connected' = conn1
               /\ joined' = jn1
               /\ tasks' = (tasks \ {t}) \cup discTask
               /\ emitted' = << Emit("bannedFromApp", IF sock /\ tc # t.c THEN {tc} ELSE {}, t.t) >>
                             \o discEmits
                             \o LeaveEmits(grp, t.t, n)
                             \o SuccessEmits(grp, IF conn1[t.c] THEN {t.c} ELSE {}, t.t, t.action)
    /\ UNCHANGED <<userSockets, socketToUser, profiles, roomStore>>
    /\ ServerStep

\* muteAllUsers without the role test in its loop: everyone but the actor is muted
MuteAllUsersAnyRole(c, r) ==
    /\ connected[c]
    /\ LET requester == Requester(c, r)
           userId == socketToUser[c]
           room == activeRooms[r]
           hit == {u \in Members(room) : u # userId}
       IN IF ~requester.in \/ ~IsStaff(requester)
          THEN /\ emitted' = << ModerationUpdate(c, userId, "muteAllUsers", FALSE, "forbidden") >>
               /\ UNCHANGED activeRooms
          ELSE /\ activeRooms' = [activeRooms EXCEPT ![r].users =
                     [u \in Users |-> IF u \in hit THEN [@[u] EXCEPT !.isMuted = TRUE] ELSE @[u]]]
               /\ emitted' = [i \in 1..Cardinality(hit) |->
                                Emit("micStateUpdate", Group(r),
                                     CHOOSE u \in hit : Cardinality({v \in hit : v < u}) = i - 1)]
                             \o << Emit("chatMessage", Group(r), 0),
                                   Emit("roomStateUpdate", Group(r), 0),
                                   ModerationUpdate(c, userId, "muteAllUsers", TRUE, "") >>
    /\ UNCHANGED <<userSockets, socketToUser, connected, joined, profiles, roomStore, tasks>>
    /\ ServerStep

\* ---- socket.on('muteAllUsers')
MuteAllUsers(c, r) ==
    /\ connected[c]
    /\ LET requester == Requester(c, r)
           userId == socketToUser[c]
           room == activeRooms[r]
           hit == {u \in Members(room) : u # userId /\ room.users[u].role = "member"}
       IN IF ~requester.in \/ ~IsStaff(requester)
          THEN /\ emitted' = << ModerationUpdate(c, userId, "muteAllUsers", FALSE, "forbidden") >>
               /\ UNCHANGED activeRooms
          ELSE /\ activeRooms' = [activeRooms EXCEPT ![r].users =
                     [u \in Users |-> IF u \in hit THEN [@[u] EXCEPT !.isMuted = TRUE] ELSE @[u]]]
               \* one micStateUpdate per muted member, in key order
               /\ emitted' = [i \in 1..Cardinality(hit) |->
                                Emit("micStateUpdate", Group(r),
                                     CHOOSE u \in hit : Cardinality({v \in hit : v < u}) = i - 1)]
                             \o << Emit("chatMessage", Group(r), 0),
                                   Emit("roomStateUpdate", Group(r), 0),
                                   ModerationUpdate(c, userId, "muteAllUsers", TRUE, "") >>
    /\ UNCHANGED <<userSockets, socketToUser, connected, joined, profiles, roomStore, tasks>>
    /\ ServerStep

\* ======================= the in-memory server of part_005 =======================

HubStep == UNCHANGED <<serverVars, detectorVars, meshVars>>

\* io.to(roomId): the sockets that joined the room
HubGroup(users, r) == {c \in Conns : users[c].on /\ users[c].roomId = r}

HubEmit(ev, to, arg) == [ev |-> ev, to |-> to, arg |-> arg]

\* io.on('connection'): activeUsers[socket.id] = {...}
HubConnect(c) ==
    /\ ~activeUsers[c].on
    /\ activeUsers' = [activeUsers EXCEPT ![c] = NewUser]
    /\ hubSent' = << HubEmit("customAlert", {c}, 0) >>
    /\ UNCHANGED <<hubRooms, hubClock>>
    /\ HubStep

\* socket.on('joinRoom'): leaves the previous room's group, joins the new one
HubJoinRoom(c, r, userId) ==
    /\ activeUsers[c].on
    /\ LET old == activeUsers[c].roomId
           left == IF old # None
                   THEN << HubEmit("userLeft", HubGroup(activeUsers, old) \ {c},
                                   activeUsers[c].userId) >>
                   ELSE <<>>
           users1 == [activeUsers EXCEPT ![c].userId = userId, ![c].roomId = r]
       IN /\ activeUsers' = users1
          /\ hubRooms' = [hubRooms EXCEPT ![r].exists = TRUE,
                                          ![r].users = @ \cup {userId}]
          /\ hubSent' = left \o << HubEmit("customAlert", {c}, 0),
                                   HubEmit("userJoined", HubGroup(users1, r), userId),
                                   HubEmit("roomState", {c}, Len(hubRooms[r].messages)) >>
    /\ UNCHANGED hubClock
    /\ HubStep

\* the push without the shift that follows it
PushUncapped(messages, message) == Append(messages, message)

\* messages.push(message); if (messages.length > 50) messages.shift()
PushCapped(messages, message) ==
    LET pushed == Append(messages, message)
    IN IF Len(pushed) > HistoryCap THEN Tail(pushed) ELSE pushed

\* socket.on('sendMessage')
HubSendMessage(c) ==
    /\ activeUsers[c].on
    /\ hubClock < MaxMessages
    /\ LET user == activeUsers[c]
           message == [id |-> hubClock + 1, type |-> "chat"]
       IN IF user.roomId = None
          THEN /\ hubSent' = << HubEmit("customAlert", {c}, 0) >>
               /\ UNCHANGED <<hubRooms, hubClock>>
          ELSE /\ hubRooms' = [hubRooms EXCEPT ![user.roomId].messages = PushCapped(@, message)]
               /\ hubClock' = hubClock + 1
               /\ hubSent' = << HubEmit("message", HubGroup(activeUsers, user.roomId),
                                        message.id) >>
    /\ UNCHANGED activeUsers
    /\ HubStep

\* socket.on('makeAnnouncement'); roomId None: no room named
HubMakeAnnouncement(c, roomId) ==
    /\ activeUsers[c].on
    /\ hubClock < MaxMessages
    /\ LET user == activeUsers[c]
           announcement == [id |-> hubClock + 1, type |-> "announcement"]
       IN IF ~user.isAdmin
          THEN /\ hubSent' = << HubEmit("customAlert", {c}, 0) >>
               /\ UNCHANGED <<hubRooms, hubClock>>
          ELSE /\ hubClock' = hubClock + 1
               /\ IF roomId # None /\ hubRooms[roomId].exists
                  THEN /\ hubSent' = << HubEmit("message", HubGroup(activeUsers, roomId),
                                                announcement.id) >>
                       /\ hubRooms' = [hubRooms EXCEPT
                                         ![roomId].messages = Append(@, announcement)]
                  ELSE /\ hubSent' = << HubEmit("message",
                                                {d \in Conns : activeUsers[d].on},
                                                announcement.id) >>
                       /\ UNCHANGED hubRooms
    /\ UNCHANGED activeUsers
    /\ HubStep

\* socket.on('disconnect'): socket.io has taken the socket out of its groups
HubDisconnect(c) ==
    /\ activeUsers[c].on
    /\ LET user == activeUsers[c]
           gone == [activeUsers EXCEPT ![c] = [NewUser EXCEPT !.on = FALSE]]
       IN /\ activeUsers' = gone
          /\ IF user.roomId # None
             THEN /\ hubRooms' = [hubRooms EXCEPT ![user.roomId].users = @ \ {user.userId}]
                  /\ hubSent' = << HubEmit("userLeft", HubGroup(gone, user.roomId),
                                           user.userId) >>
             ELSE /\ hubSent' = <<>>
                  /\ UNCHANGED hubRooms
    /\ UNCHANGED hubClock
    /\ HubStep

\* ======================= the speaking detector (webrtc.js) =======================

DetectorStep == UNCHANGED <<serverVars, hubVars, meshVars>>

\* const speakingThreshold = 0.05, in hundredths
speakingThreshold == 5

\* the normalised volume of one buffer, in hundredths
Volumes == {0, speakingThreshold, speakingThreshold + 1, 50}

\* setTimeout(() => {isSpeaking = value; ...}, speakingDebounceTime): a new pending timer
FreshTimer == CHOOSE id \in 1..MaxTimers : \A t \in timers : t.id # id

SetTimeout(value) == timers \cup {[id |-> FreshTimer, value |-> value]}

\* clearTimeout(speakingTimeout)
ClearTimeout(handle) == {t \in timers : t.id # handle}

\* setupAudioProcessing(stream), called by getLocalStream when the mic is switched on
SetupAudioProcessing ==
    /\ ~processing
    /\ processing' = TRUE
    /\ UNCHANGED <<volume, isSpeaking, speakingTimeout, timers, speakingLog>>
    /\ DetectorStep

\* onaudioprocess with the guards on the stored handle left out
OnAudioProcessUnguarded(sample) ==
    /\ processing
    /\ \E id \in 1..MaxTimers : \A t \in timers : t.id # id
    /\ IF sample > speakingThreshold /\ ~isSpeaking
       THEN /\ timers' = SetTimeout(TRUE)
            /\ speakingTimeout' = FreshTimer
       ELSE IF sample <= speakingThreshold /\ isSpeaking
       THEN /\ timers' = SetTimeout(FALSE)
            /\ speakingTimeout' = FreshTimer
       ELSE IF sample > speakingThreshold /\ speakingTimeout # None
       THEN /\ timers' = ClearTimeout(speakingTimeout)
            /\ speakingTimeout' = None
       ELSE UNCHANGED <<timers, speakingTimeout>>
    /\ volume' = sample
    /\ UNCHANGED <<processing, isSpeaking, speakingLog>>
    /\ DetectorStep

\* scriptProcessor.onaudioprocess for one buffer of the given volume
OnAudioProcess(sample) ==
    /\ processing
    /\ \E id \in 1..MaxTimers : \A t \in timers : t.id # id
    /\ IF sample > speakingThreshold /\ ~isSpeaking
       THEN IF speakingTimeout = None
            THEN /\ timers' = SetTimeout(TRUE)
                 /\ speakingTimeout' = FreshTimer
            ELSE UNCHANGED <<timers, speakingTimeout>>
       ELSE IF sample <= speakingThreshold /\ isSpeaking
       THEN IF speakingTimeout = None
            THEN /\ timers' = SetTimeout(FALSE)
                 /\ speakingTimeout' = FreshTimer
            ELSE UNCHANGED <<timers, speakingTimeout>>
       ELSE IF sample > speakingThreshold /\ speakingTimeout # None
       THEN /\ timers' = ClearTimeout(speakingTimeout)
            /\ speakingTimeout' = None
       ELSE UNCHANGED <<timers, speakingTimeout>>
    /\ volume' = sample
    /\ UNCHANGED <<processing, isSpeaking, speakingLog>>
    /\ DetectorStep

\* the timer's callback, 200 ms after it was set
TimerFire(t) ==
    /\ t \in timers
    /\ Len(speakingLog) < MaxEvents
    /\ timers' = timers \ {t}
    /\ isSpeaking' = t.value
    /\ speakingLog' = Append(speakingLog, [value |-> t.value, by |-> "timer"])
    /\ speakingTimeout' = None
    /\ UNCHANGED <<processing, volume>>
    /\ DetectorStep

\* stopAudioProcessing(), called by toggleLocalMic when the mic is switched off
StopAudioProcessing ==
    /\ processing
    /\ Len(speakingLog) < MaxEvents
    /\ processing' = FALSE
    /\ timers' = IF speakingTimeout # None THEN ClearTimeout(speakingTimeout) ELSE timers
    /\ speakingTimeout' = None
    /\ isSpeaking' = FALSE
    /\ speakingLog' = Append(speakingLog, [value |-> FALSE, by |-> "stop"])
    /\ UNCHANGED volume
    /\ DetectorStep

\* Object.values(activeUsers).find(u => u.userId === targetUserId)?.socketId:
\* the first entry in connection order, None when there is none
FindSocket(targetUserId) ==
    LET found == {d \in Conns : activeUsers[d].on /\ activeUsers[d].userId = targetUserId}
    IN IF found = {} THEN None
       ELSE CHOOSE d \in found : \A x \in found : d <= x

RelayKinds == {"webrtc-offer", "webrtc-answer", "webrtc-ice-candidate"}

\* socket.on('webrtc-offer' / 'webrtc-answer' / 'webrtc-ice-candidate')
HubRelay(c, kind, targetUserId, payload) ==
    /\ activeUsers[c].on
    /\ LET targetSocket == FindSocket(targetUserId)
       IN hubSent' = IF targetSocket # None
                     THEN << HubEmit(kind, {targetSocket}, payload) >>
                     ELSE <<>>
    /\ UNCHANGED <<activeUsers, hubRooms, hubClock>>
    /\ HubStep


\* ======================= the voice mesh (webrtc.js) =======================

MeshStep == UNCHANGED <<serverVars, hubVars, detectorVars>>

\* new RTCPeerConnection(configuration); peerConnections[remoteUserId] = pc
NewLink == [NoLink EXCEPT !.state = "new"]

Message(kind, from, users) == [kind |-> kind, from |-> from, users |-> users]

Job(p, kind, q) == [p |-> p, kind |-> kind, q |-> q]

\* the relay forwards to the connection registered for the target, and drops
\* the message when there is none
Deliver(box, to, m) ==
    IF to \in present THEN [box EXCEPT ![to] = Append(@, m)] ELSE box

HasRoom(box, to) == to \notin present \/ Len(box[to]) < MaxInbox

\* cleanupPeerConnection(userId): close and delete; a function still awaiting
\* on the closed link fails at its next call on it and ends
CleanupLinks(pcs, p, qs) == [pcs EXCEPT ![p] = [q \in Peers |-> IF q \in qs THEN NoLink ELSE @[q]]]

CleanupJobs(js, p, qs) == {j \in js : ~(j.p = p /\ j.q \in qs /\ j.kind \in {"createOffer", "answer"})}

\* createOffer(remoteUserId) up to its first await, for every user in qs
OfferLinks(pcs, p, qs) ==
    [pcs EXCEPT ![p] = [q \in Peers |-> IF q \in qs /\ @[q].state = "none" THEN NewLink ELSE @[q]]]

OfferJobs(pcs, p, qs) == {Job(p, "createOffer", q) : q \in {x \in qs : pcs[p][x].state = "none"}}

\* ---- the server side of a join: userJoined to the room, roomState to the joiner
MeshJoin(p) ==
    /\ p \notin present
    /\ LET now == present \cup {p}
       IN /\ \A m \in now : Len(inbox[m]) + (IF m = p THEN 2 ELSE 1) <= MaxInbox
          /\ present' = now
          /\ inbox' = [m \in Peers |->
                         IF m = p THEN inbox[m] \o << Message("userJoined", p, {}),
                                                      Message("roomState", p, now) >>
                         ELSE IF m \in now THEN Append(inbox[m], Message("userJoined", p, {}))
                         ELSE inbox[m]]
    /\ UNCHANGED <<currentRoomUsers, localStream, micWanted, peerConnections, jobs>>
    /\ UNCHANGED switchedOff
    /\ MeshStep

\* ---- roomState: renderRoomMics rebuilds currentRoomUsers
OnRoomState(p) ==
    /\ inbox[p] # <<>> /\ Head(inbox[p]).kind = "roomState"
    /\ inbox' = [inbox EXCEPT ![p] = Tail(@)]
    /\ currentRoomUsers' = [currentRoomUsers EXCEPT ![p] = Head(inbox[p]).users]
    /\ UNCHANGED <<present, localStream, micWanted, peerConnections, jobs>>
    /\ UNCHANGED switchedOff
    /\ MeshStep

\* ---- the userUpdate listeners: the room list, then an offer to the newcomer
\* when the local microphone is captured
OnUserJoined(p) ==
    /\ inbox[p] # <<>> /\ Head(inbox[p]).kind = "userJoined"
    /\ LET user == Head(inbox[p]).from
           offer == user # p /\ localStream[p]
       IN /\ inbox' = [inbox EXCEPT ![p] = Tail(@)]
          /\ currentRoomUsers' = [currentRoomUsers EXCEPT ![p] = @ \cup {user}]
          /\ peerConnections' = IF offer THEN OfferLinks(peerConnections, p, {user})
                                ELSE peerConnections
          /\ jobs' = IF offer THEN jobs \cup OfferJobs(peerConnections, p, {user}) ELSE jobs
    /\ UNCHANGED <<present, localStream, micWanted>>
    /\ UNCHANGED switchedOff
    /\ MeshStep

\* ---- createOffer after pc.createOffer() and pc.setLocalDescription(offer):
\* the offer is sent; a link that took a remote offer meanwhile refuses the
\* local one and nothing is sent
CreateOfferFinish(j) ==
    /\ j \in jobs /\ j.kind = "createOffer"
    /\ HasRoom(inbox, j.q)
    /\ jobs' = jobs \ {j}
    /\ IF peerConnections[j.p][j.q].state = "new"
       THEN /\ peerConnections' = [peerConnections EXCEPT ![j.p][j.q].state = "have-local-offer"]
            /\ inbox' = Deliver(inbox, j.q, Message("offer", j.p, {}))
       ELSE UNCHANGED <<peerConnections, inbox>>
    /\ UNCHANGED <<present, currentRoomUsers, localStream, micWanted>>
    /\ UNCHANGED switchedOff
    /\ MeshStep

\* const pc = peerConnections[senderId] || createPeerConnection(senderId), then
\* setRemoteDescription(offer).  On a link that has sent its own offer the
\* browser either rolls the local offer back and takes the remote one (rollback
\* TRUE) or rejects the remote one
TakeOffer(pcs, js, p, senderId, rollback) ==
    LET pc == pcs[p][senderId]
        taken == pc.state # "have-local-offer" \/ rollback
    IN [pcs |-> IF taken THEN [pcs EXCEPT ![p][senderId].state = "have-remote-offer"] ELSE pcs,
        jobs |-> IF taken THEN js \cup {Job(p, "answer", senderId)} ELSE js]

\* ---- handleOffer up to its first await: getLocalStream when there is no local
\* stream, the link otherwise
HandleOffer(p) ==
    /\ inbox[p] # <<>> /\ Head(inbox[p]).kind = "offer"
    /\ inbox' = [inbox EXCEPT ![p] = Tail(@)]
    /\ LET senderId == Head(inbox[p]).from
       IN IF ~localStream[p]
          THEN /\ jobs' = jobs \cup {Job(p, "getLocalStream", senderId)}
               /\ UNCHANGED peerConnections
          ELSE \E rollback \in BOOLEAN :
                 LET next == TakeOffer(peerConnections, jobs, p, senderId, rollback)
                 IN /\ peerConnections' = next.pcs
                    /\ jobs' = next.jobs
    /\ UNCHANGED <<present, currentRoomUsers, localStream, micWanted>>
    /\ UNCHANGED switchedOff
    /\ MeshStep

\* handleOffer after getLocalStream: getUserMedia gave a stream (granted) and
\* capture has started, or it failed and the offer is given up
HandleOfferStream(j) ==
    /\ j \in jobs /\ j.kind = "getLocalStream"
    /\ \E granted, rollback \in BOOLEAN :
         IF granted
         THEN LET next == TakeOffer(peerConnections, jobs \ {j}, j.p, j.q, rollback)
              IN /\ localStream' = [localStream EXCEPT ![j.p] = TRUE]
                 /\ peerConnections' = next.pcs
                 /\ jobs' = next.jobs
         ELSE /\ jobs' = jobs \ {j}
              /\ UNCHANGED <<localStream, peerConnections>>
    /\ UNCHANGED <<present, currentRoomUsers, micWanted, inbox>>
    /\ UNCHANGED switchedOff
    /\ MeshStep

\* handleOffer after createAnswer() and setLocalDescription(answer)
HandleOfferAnswer(j) ==
    /\ j \in jobs /\ j.kind = "answer"
    /\ HasRoom(inbox, j.q)
    /\ jobs' = jobs \ {j}
    /\ IF peerConnections[j.p][j.q].state = "have-remote-offer"
       THEN /\ peerConnections' = [peerConnections EXCEPT ![j.p][j.q].state = "stable"]
            /\ inbox' = Deliver(inbox, j.q, Message("answer", j.p, {}))
       ELSE UNCHANGED <<peerConnections, inbox>>
    /\ UNCHANGED <<present, currentRoomUsers, localStream, micWanted>>
    /\ UNCHANGED switchedOff
    /\ MeshStep

\* ---- handleAnswer
HandleAnswer(p) ==
    /\ inbox[p] # <<>> /\ Head(inbox[p]).kind = "answer"
    /\ inbox' = [inbox EXCEPT ![p] = Tail(@)]
    /\ LET senderId == Head(inbox[p]).from
       IN peerConnections' =
            IF peerConnections[p][senderId].state = "have-local-offer"
            THEN [peerConnections EXCEPT ![p][senderId].state = "stable"]
            ELSE peerConnections
    /\ UNCHANGED <<present, currentRoomUsers, localStream, micWanted, jobs>>
    /\ UNCHANGED switchedOff
    /\ MeshStep

\* the link has a remote description, or a setRemoteDescription ahead of the
\* candidate in its chain of operations
HasRemote(pc) == pc.state \in {"have-remote-offer", "stable"}

\* ---- handleIceCandidate: if (pc && candidate) addIceCandidate, which fails on
\* a link without a remote description; else a warning
HandleIceCandidate(p) ==
    /\ inbox[p] # <<>> /\ Head(inbox[p]).kind = "ice"
    /\ inbox' = [inbox EXCEPT ![p] = Tail(@)]
    /\ LET senderId == Head(inbox[p]).from
           pc == peerConnections[p][senderId]
       IN peerConnections' =
            IF pc.state # "none" /\ HasRemote(pc)
            THEN [peerConnections EXCEPT ![p][senderId].ice = TRUE]
            ELSE peerConnections
    /\ UNCHANGED <<present, currentRoomUsers, localStream, micWanted, jobs>>
    /\ UNCHANGED switchedOff
    /\ MeshStep

\* ---- pc.onicecandidate: a link with a local description hands out a candidate
OnIceCandidate(p, q) ==
    /\ peerConnections[p][q].state \in {"have-local-offer", "stable"}
    /\ ~peerConnections[p][q].sent
    /\ HasRoom(inbox, q)
    /\ peerConnections' = [peerConnections EXCEPT ![p][q].sent = TRUE]
    /\ inbox' = Deliver(inbox, q, Message("ice", p, {}))
    /\ UNCHANGED <<present, currentRoomUsers, localStream, micWanted, jobs>>
    /\ UNCHANGED switchedOff
    /\ MeshStep

\* ---- pc.onconnectionstatechange with 'disconnected' or 'failed': the checks
\* towards the candidates of a remote side that closed its link go unanswered
OnConnectionStateChange(p, q) ==
    /\ peerConnections[p][q].state # "none" /\ peerConnections[p][q].ice
    /\ peerConnections[q][p].state = "none"
    /\ peerConnections' = CleanupLinks(peerConnections, p, {q})
    /\ jobs' = CleanupJobs(jobs, p, {q})
    /\ UNCHANGED <<present, currentRoomUsers, localStream, micWanted, inbox>>
    /\ UNCHANGED switchedOff
    /\ MeshStep

\* ---- toggleLocalMic up to its await (no stream), or its whole off branch;
\* 'micStatus' has no handler on the server
ToggleLocalMic(p) ==
    /\ p \in present
    /\ ~\E j \in jobs : j.p = p /\ j.kind = "toggleLocalMic"
    /\ IF ~localStream[p]
       THEN /\ micWanted' = [micWanted EXCEPT ![p] = TRUE]
            /\ jobs' = jobs \cup {Job(p, "toggleLocalMic", None)}
            /\ switchedOff' = [switchedOff EXCEPT ![p] = {}]
            /\ UNCHANGED <<localStream, peerConnections>>
       ELSE /\ micWanted' = [micWanted EXCEPT ![p] = FALSE]
            /\ localStream' = [localStream EXCEPT ![p] = FALSE]
            /\ peerConnections' = CleanupLinks(peerConnections, p, Peers)
            /\ jobs' = CleanupJobs(jobs, p, Peers)
            /\ switchedOff' = [switchedOff EXCEPT ![p] =
                                 {q \in Peers \ {p} : peerConnections[q][p].state # "none"}]
    /\ UNCHANGED <<present, currentRoomUsers, inbox>>
    /\ MeshStep

\* toggleLocalMic after getLocalStream: offers to every user of the room list
ToggleLocalMicStream(j) ==
    /\ j \in jobs /\ j.kind = "toggleLocalMic"
    /\ \E granted \in BOOLEAN :
         IF granted
         THEN LET others == currentRoomUsers[j.p] \ {j.p}
              IN /\ localStream' = [localStream EXCEPT ![j.p] = TRUE]
                 /\ peerConnections' = OfferLinks(peerConnections, j.p, others)
                 /\ jobs' = (jobs \ {j}) \cup OfferJobs(peerConnections, j.p, others)
                 /\ UNCHANGED micWanted
         ELSE /\ jobs' = jobs \ {j}
              /\ micWanted' = [micWanted EXCEPT ![j.p] = localStream[j.p]]
              /\ UNCHANGED <<localStream, peerConnections>>
    /\ UNCHANGED <<present, currentRoomUsers, inbox>>
    /\ UNCHANGED switchedOff
    /\ MeshStep

\* ---- the server: every handler, every browser
Next ==
    \/ \E c \in Conns : UserConnected(c)
    \/ \E c \in Conns, r \in Rooms : JoinRoom(c, r, c)
    \/ \E t \in tasks : JoinCreateRoom(t)
    \/ \E t \in tasks : JoinLoadMessages(t)
    \/ \E t \in tasks : JoinAddUser(t)
    \/ \E c \in Conns, r \in Rooms : ExitRoom(c, r)
    \/ \E c \in Conns : Disconnect(c)
    \/ \E t \in tasks : DisconnectFinish(t)
    \/ \E c \in Conns : Connect(c)
    \/ \E c \in Conns, r \in Rooms : SendChatMessage(c, r)
    \/ \E c \in Conns, r \in Rooms, u \in Users : RequestMicAscent(c, r, u)
    \/ \E c \in Conns, r \in Rooms, u \in Users : RequestMicDescent(c, r, u)
    \/ \E c \in Conns, r \in Rooms, lock \in BOOLEAN : ToggleMicLock(c, r, lock)
    \/ \E c \in Conns, r \in Rooms, u \in Users, i \in 0..(NumMics + 1) :
          TransferUserMic(c, r, u, i)
    \/ \E c \in Conns, r \in Rooms, u \in Users, p \in BOOLEAN : PreventMicAscent(c, r, u, p)
    \/ \E t \in tasks : PreventMicAscentFinish(t)
    \/ \E c \in Conns, r \in Rooms, u \in Users, a \in Actions : ModerateUser(c, r, u, a)
    \/ \E t \in tasks : RoleFinish(t)
    \/ \E t \in tasks : BanFinish(t)
    \/ \E c \in Conns, r \in Rooms : MuteAllUsers(c, r)
    \/ \E c \in Conns, to \in Users, p \in 1..NumPayloads : WebrtcSignal(c, to, p)

Spec == Init /\ [][Next]_vars

\* ---- the stage: every browser joins, leaves and asks for the mic for its own
\* user; the admin's browser (user 1) is the registered one and sends the
\* privileged requests
AdminConn == CHOOSE c \in Conns : InitProfile(c).role = "admin"

NextStage ==
    \/ UserConnected(AdminConn)
    \/ \E c \in Conns, r \in Rooms : JoinRoom(c, r, c)
    \/ \E t \in tasks : JoinCreateRoom(t)
    \/ \E t \in tasks : JoinLoadMessages(t)
    \/ \E t \in tasks : JoinAddUser(t)
    \/ \E r \in Rooms : ExitRoom(AdminConn, r)
    \/ \E c \in Conns, r \in Rooms : RequestMicAscent(c, r, c)
    \/ \E c \in Conns, r \in Rooms : RequestMicDescent(c, r, c)
    \/ \E r \in Rooms, lock \in BOOLEAN : ToggleMicLock(AdminConn, r, lock)
    \/ \E r \in Rooms, u \in Users, i \in 0..(NumMics + 1) :
          TransferUserMic(AdminConn, r, u, i)
    \/ \E r \in Rooms, u \in Users, p \in BOOLEAN : PreventMicAscent(AdminConn, r, u, p)
    \/ \E t \in tasks : PreventMicAscentFinish(t)

SpecStage == Init /\ [][NextStage]_vars

\* ---- moderation by the non-admin browsers: the admin (user 1) joins but its
\* browser sends no request, so the roles above it stay as stored
NextMod ==
    \/ \E c \in Conns \ {AdminConn} : UserConnected(c)
    \/ \E c \in Conns, r \in Rooms : JoinRoom(c, r, c)
    \/ \E t \in tasks : JoinCreateRoom(t)
    \/ \E t \in tasks : JoinLoadMessages(t)
    \/ \E t \in tasks : JoinAddUser(t)
    \/ \E c \in Conns \ {AdminConn}, r \in Rooms, u \in Users, a \in Actions :
          ModerateUser(c, r, u, a)
    \/ \E t \in tasks : RoleFinish(t)
    \/ \E t \in tasks : BanFinish(t)
    \/ \E t \in tasks : DisconnectFinish(t)

SpecMod == Init /\ [][NextMod]_vars

\* ---- eviction: every browser registers and joins; kick and ban
NextEvict ==
    \/ \E c \in Conns : UserConnected(c)
    \/ \E c \in Conns, r \in Rooms : JoinRoom(c, r, c)
    \/ \E t \in tasks : JoinCreateRoom(t)
    \/ \E t \in tasks : JoinLoadMessages(t)
    \/ \E t \in tasks : JoinAddUser(t)
    \/ \E c \in Conns, r \in Rooms, u \in Users, a \in {"kick", "ban"} :
          ModerateUser(c, r, u, a)
    \/ \E t \in tasks : BanFinish(t)
    \/ \E t \in tasks : DisconnectFinish(t)

SpecEvict == Init /\ [][NextEvict]_vars

\* ---- chat and muting
NextChat ==
    \/ \E c \in Conns : UserConnected(c)
    \/ \E c \in Conns, r \in Rooms : JoinRoom(c, r, c)
    \/ \E t \in tasks : JoinCreateRoom(t)
    \/ \E t \in tasks : JoinLoadMessages(t)
    \/ \E t \in tasks : JoinAddUser(t)
    \/ \E c \in Conns, r \in Rooms : SendChatMessage(c, r)
    \/ \E c \in Conns, r \in Rooms, u \in Users, a \in {"mute", "unmute"} :
          ModerateUser(c, r, u, a)
    \/ \E c \in Conns, r \in Rooms : MuteAllUsers(c, r)

SpecChat == Init /\ [][NextChat]_vars

\* ---- the lobby: connections come and go, users join and leave
NextLobby ==
    \/ \E c \in Conns : UserConnected(c)
    \/ \E c \in Conns, r \in Rooms : JoinRoom(c, r, c)
    \/ \E t \in tasks : JoinCreateRoom(t)
    \/ \E t \in tasks : JoinLoadMessages(t)
    \/ \E t \in tasks : JoinAddUser(t)
    \/ \E c \in Conns, r \in Rooms : ExitRoom(c, r)
    \/ \E c \in Conns : Disconnect(c)
    \/ \E t \in tasks : DisconnectFinish(t)
    \/ \E c \in Conns : Connect(c)

SpecLobby == Init /\ [][NextLobby]_vars

\* ---- every moderation request, muteAllUsers included, sent by the browsers
\* other than the admin's
NextModAll ==
    \/ NextMod
    \/ \E c \in Conns \ {AdminConn}, r \in Rooms : MuteAllUsers(c, r)

SpecModAll == Init /\ [][NextModAll]_vars

\* ---- the message history of part_005
NextHistory ==
    \/ \E c \in Conns : HubConnect(c)
    \/ \E c \in Conns, r \in Rooms : HubJoinRoom(c, r, c)
    \/ \E c \in Conns : HubSendMessage(c)
    \/ \E c \in Conns, r \in Rooms \cup {None} : HubMakeAnnouncement(c, r)
    \/ \E c \in Conns : HubDisconnect(c)

SpecHistory == Init /\ [][NextHistory]_vars

\* ---- the speaking detector of one browser
NextDetector ==
    \/ SetupAudioProcessing
    \/ \E v \in Volumes : OnAudioProcess(v)
    \/ \E t \in timers : TimerFire(t)
    \/ StopAudioProcessing

SpecDetector == Init /\ [][NextDetector]_vars

\* ---- signaling: a deployment runs one of the two server files, so a run
\* talks to the server of part_004 or to the server of part_005, never both;
\* browsers register, join, drop and send signaling messages to any user
ServerAtRest ==
    /\ socketToUser = [c \in Conns |-> None]
    /\ \A c \in Conns : connected[c] /\ joined[c] = {}
    /\ tasks = {}
    /\ emitted = <<>>

HubAtRest ==
    /\ activeUsers = [c \in Conns |-> NewUser]
    /\ hubRooms = [r \in AllRooms |-> NoHubRoom]
    /\ hubSent = <<>>

NextRelay ==
    \/ \E c \in Conns : HubAtRest /\ UserConnected(c)
    \/ \E c \in Conns, r \in Rooms : HubAtRest /\ JoinRoom(c, r, c)
    \/ \E t \in tasks : JoinCreateRoom(t)
    \/ \E t \in tasks : JoinLoadMessages(t)
    \/ \E t \in tasks : JoinAddUser(t)
    \/ \E c \in Conns : HubAtRest /\ Disconnect(c)
    \/ \E t \in tasks : DisconnectFinish(t)
    \/ \E c \in Conns, to \in Users, p \in 1..NumPayloads :
          HubAtRest /\ WebrtcSignal(c, to, p)
    \/ \E c \in Conns : ServerAtRest /\ HubConnect(c)
    \/ \E c \in Conns, r \in Rooms : ServerAtRest /\ HubJoinRoom(c, r, c)
    \/ \E c \in Conns : ServerAtRest /\ HubDisconnect(c)
    \/ \E c \in Conns, k \in RelayKinds, to \in Users, p \in 1..NumPayloads :
          ServerAtRest /\ HubRelay(c, k, to, p)

SpecRelay == Init /\ [][NextRelay]_vars

\* ---- moving between rooms: browsers join one room after another and go on
\* stage there, on the server of part_004 or on the server of part_005
NextMove ==
    \/ \E c \in Conns, r \in AllRooms : HubAtRest /\ JoinRoom(c, r, c)
    \/ \E t \in tasks : JoinCreateRoom(t)
    \/ \E t \in tasks : JoinLoadMessages(t)
    \/ \E t \in tasks : JoinAddUser(t)
    \/ \E c \in Conns, r \in AllRooms : HubAtRest /\ RequestMicAscent(c, r, c)
    \/ \E c \in Conns, r \in AllRooms : ServerAtRest /\ HubJoinRoom(c, r, c)

SpecMove == Init /\ [][NextMove]_vars

\* ---- eviction with return: as above, and a browser whose socket was closed
\* opens a new one
NextReturn ==
    \/ NextEvict
    \/ \E c \in Conns : Connect(c)

SpecReturn == Init /\ [][NextReturn]_vars

\* ---- mic requests naming any user: the handlers take userId from the payload
NextStageAny ==
    \/ \E c \in Conns : UserConnected(c)
    \/ \E c \in Conns, r \in Rooms : JoinRoom(c, r, c)
    \/ \E t \in tasks : JoinCreateRoom(t)
    \/ \E t \in tasks : JoinLoadMessages(t)
    \/ \E t \in tasks : JoinAddUser(t)
    \/ \E c \in Conns, r \in Rooms, u \in Users : RequestMicAscent(c, r, u)
    \/ \E c \in Conns, r \in Rooms, u \in Users : RequestMicDescent(c, r, u)

SpecStageAny == Init /\ [][NextStageAny]_vars

\* ---- the conditions under which the privileged handlers go past their checks,
\* as functions of the room, the requester's member object and the target's
\* if (!room || !requester || (requester.role !== 'admin' && requester.role !== 'moderator'))
StaffAccepted(room, requester) ==
    room.exists /\ requester.in /\ IsStaff(requester)

\* the same with !targetUser in the test
TargetedStaffAccepted(room, requester, targetUser) ==
    StaffAccepted(room, requester) /\ targetUser.in

\* transferUserMic: then the index range and the occupied chair
TransferAccepted(room, requester, targetUser, targetUserId, newMicIndex) ==
    /\ TargetedStaffAccepted(room, requester, targetUser)
    /\ newMicIndex >= 1 /\ newMicIndex <= NumMics
    /\ ~\E i \in 1..Len(room.stageUsers) :
           /\ room.stageUsers[i].micIndex = newMicIndex
           /\ room.stageUsers[i].id # targetUserId

\* moderateUser: the existence test, the authorization test, a known action
ModerateAccepted(room, requester, targetUser, action) ==
    /\ room.exists /\ requester.in /\ targetUser.in
    /\ ~ModerationDenied(requester, targetUser)
    /\ action \in Actions \ {"other"}

\* ---- the moderator at work: every browser joins, the moderator's browser
\* (user 2) is the registered one and sends every privileged request; a run
\* works on the stage or on the members, and starts on the other only when the
\* first is back as it was
ModeratorConn == CHOOSE c \in Conns : InitProfile(c).role = "moderator"

StageQuiet ==
    /\ \A r \in AllRooms : activeRooms[r].stageUsers = <<>> /\ ~activeRooms[r].micLock
                             /\ roomStore[r].stageUsers = <<>> /\ ~roomStore[r].micLock
    /\ \A u \in Users : profiles[u].canMicAscent
    /\ \A t \in tasks : t.kind # "preventMicAscent"

MembersQuiet ==
    /\ profiles = [u \in Users |-> InitProfile(u)]
    /\ \A r \in AllRooms, u \in Users : ~activeRooms[r].users[u].isMuted
    /\ \A c \in Conns : connected[c]
    /\ \A t \in tasks : t.kind \notin {"role", "ban", "disconnect"}

NextStaff ==
    \/ UserConnected(ModeratorConn)
    \/ \E c \in Conns, r \in Rooms : JoinRoom(c, r, c)
    \/ \E t \in tasks : JoinCreateRoom(t)
    \/ \E t \in tasks : JoinLoadMessages(t)
    \/ \E t \in tasks : JoinAddUser(t)
    \/ \E c \in {ModeratorConn}, r \in Rooms, lock \in BOOLEAN :
          MembersQuiet /\ ToggleMicLock(c, r, lock)
    \/ \E c \in {ModeratorConn}, r \in Rooms, u \in Users, i \in 0..(NumMics + 1) :
          MembersQuiet /\ TransferUserMic(c, r, u, i)
    \/ \E c \in {ModeratorConn}, r \in Rooms, u \in Users, p \in BOOLEAN :
          MembersQuiet /\ PreventMicAscent(c, r, u, p)
    \/ \E t \in tasks : PreventMicAscentFinish(t)
    \/ \E c \in {ModeratorConn}, r \in Rooms, u \in Users, a \in Actions :
          StageQuiet /\ ModerateUser(c, r, u, a)
    \/ \E t \in tasks : RoleFinish(t)
    \/ \E t \in tasks : BanFinish(t)
    \/ \E c \in {ModeratorConn}, r \in Rooms : StageQuiet /\ MuteAllUsers(c, r)

SpecStaff == Init /\ [][NextStaff]_vars

\* ---- the voice mesh of one room
NextMesh ==
    \/ \E p \in Peers : MeshJoin(p)
    \/ \E p \in Peers : OnRoomState(p)
    \/ \E p \in Peers : OnUserJoined(p)
    \/ \E j \in jobs : CreateOfferFinish(j)
    \/ \E p \in Peers : HandleOffer(p)
    \/ \E j \in jobs : HandleOfferStream(j)
    \/ \E j \in jobs : HandleOfferAnswer(j)
    \/ \E p \in Peers : HandleAnswer(p)
    \/ \E p \in Peers : HandleIceCandidate(p)
    \/ \E p, q \in Peers : OnIceCandidate(p, q)
    \/ \E p, q \in Peers : OnConnectionStateChange(p, q)
    \/ \E p \in Peers : ToggleLocalMic(p)
    \/ \E j \in jobs : ToggleLocalMicStream(j)

SpecMesh == Init /\ [][NextMesh]_vars

\* every message that arrived is handled, every await returns, and the browser
\* reports the loss of a link whose checks go unanswered; the users are free
\* to join and to touch the microphone switch or not
MeshFairness ==
    /\ \A p \in Peers : /\ WF_vars(OnRoomState(p))
                         /\ WF_vars(OnUserJoined(p))
                         /\ WF_vars(HandleOffer(p))
                         /\ WF_vars(HandleAnswer(p))
                         /\ WF_vars(HandleIceCandidate(p))
    /\ WF_vars(\E j \in jobs : CreateOfferFinish(j))
    /\ WF_vars(\E j \in jobs : HandleOfferStream(j))
    /\ WF_vars(\E j \in jobs : HandleOfferAnswer(j))
    /\ WF_vars(\E j \in jobs : ToggleLocalMicStream(j))
    /\ \A p, q \in Peers : WF_vars(OnConnectionStateChange(p, q))

SpecMeshLive == SpecMesh /\ MeshFairness

\* ======================= properties =======================

\* C1: in every room of the table the stage list holds no userId twice and
\* every userId on it is a key of the member map (stated here for the states
\* in which no handler is suspended).
StageWithinMembers ==
    tasks = {} =>
      \A r \in Rooms :
        activeRooms[r].exists =>
          /\ Cardinality(StageIds(activeRooms[r])) = Len(activeRooms[r].stageUsers)
          /\ StageIds(activeRooms[r]) \subseteq Members(activeRooms[r])

\* C2: a chat message of a member whose isMuted flag is set is never broadcast.
MutedChatRejected ==
    \A i \in 1..Len(emitted) :
      (emitted[i].ev = "chatMessage" /\ emitted[i].action = "chat") =>
        ~activeRooms[emitted[i].room].users[emitted[i].arg].isMuted
\* C3: a moderateUser request whose actor is neither moderator nor admin, or
\* whose actor is no admin while the target is a moderator or an admin, is
\* answered with success = false on the actor's connection alone, whatever the
\* action, and changes nothing in the room table, the groups, the registry or
\* the stores.
Unauthorized(c, r, targetUserId) ==
    LET actor == Requester(c, r)
        target == activeRooms[r].users[targetUserId]
    IN /\ actor.in /\ target.in
       /\ \/ actor.role \notin {"moderator", "admin"}
          \/ actor.role # "admin" /\ target.role \in {"moderator", "admin"}

UnauthorizedModerationRejected ==
    [][\A c \in Conns, r \in Rooms, u \in Users, a \in Actions :
         (Unauthorized(c, r, u) /\ ModerateUser(c, r, u, a)) =>
            /\ UNCHANGED <<activeRooms, userSockets, socketToUser, connected, joined,
                           profiles, roomStore, tasks>>
            /\ Len(emitted') = 1
            /\ emitted'[1].ev = "moderationUpdate"
            /\ emitted'[1].ok = FALSE
            /\ emitted'[1].to = {c}]_vars

\* C3 witness: a plain member in the room has just been refused an action
\* against the admin's room
MemberRefused ==
    \E c \in Conns, r \in Rooms :
        /\ Requester(c, r).in /\ Requester(c, r).role = "member"
        /\ 1 \in Members(activeRooms[r]) /\ activeRooms[r].users[1].role = "admin"
        /\ Len(emitted) = 1
        /\ emitted[1].ev = "moderationUpdate" /\ emitted[1].action = "kick"
        /\ emitted[1].msg = "forbidden" /\ emitted[1].to = {c}

\* C4: ban, assignModerator and removeModerator requested by an actor whose
\* role is moderator are refused and leave the member map, the roles, the
\* moderator list and the stored profiles as they were.
AdminOnlyActions ==
    [][\A c \in Conns, r \in Rooms, u \in Users,
          a \in {"ban", "assignModerator", "removeModerator"} :
         (Requester(c, r).in /\ Requester(c, r).role = "moderator"
             /\ ModerateUser(c, r, u, a)) =>
            /\ UNCHANGED <<activeRooms, profiles, tasks>>
            /\ Len(emitted') = 1
            /\ emitted'[1].ok = FALSE]_vars
\* C5: no two entries of a room's stage list carry the same mic index, in
\* every state reached by any interleaving of the ascent, descent, transfer,
\* join and exit handlers.
MicIndexExclusive ==
    \A r \in Rooms :
      \A i, j \in 1..Len(activeRooms[r].stageUsers) :
        i # j => activeRooms[r].stageUsers[i].micIndex # activeRooms[r].stageUsers[j].micIndex

\* C5 witness: two different members are on the stage, both put there by their
\* own ascent requests, the second one last
TwoAscended ==
    \E r \in Rooms, u, v \in Users :
        /\ u # v
        /\ {u, v} \subseteq StageIds(activeRooms[r])
        /\ {u, v} \subseteq Members(activeRooms[r])
        /\ Len(emitted) = 3
        /\ emitted[2].action = "micUp" /\ emitted[2].ok /\ emitted[2].arg = v

\* C6: a granted ascent hands out the smallest index that no stage entry held
\* when the request arrived.
GrantedIndex(r, userId) ==
    LET stage == activeRooms[r].stageUsers
        i == CHOOSE k \in 1..Len(stage) : stage[k].id = userId
    IN stage[i].micIndex

LowestFreeIndexGranted ==
    [][\A c \in Conns, r \in Rooms, u \in Users :
         (RequestMicAscent(c, r, u) /\ activeRooms' # activeRooms) =>
            LET held == StageIndices(activeRooms[r])
                got == activeRooms'[r].users[u].micIndex
            IN /\ got \in 1..NumMics
               /\ got \notin held
               /\ \A k \in 1..(got - 1) : k \in held
               /\ u \in StageIds(activeRooms'[r])
               /\ GrantedIndex(r, u)' = got]_vars

\* C6 witness: index 1 was free while index 2 was taken, and the ascent
\* just granted received index 1
FreedIndexReused ==
    \E r \in Rooms, u, v \in Users :
        /\ u # v
        /\ Len(emitted) = 3
        /\ emitted[2].action = "micUp" /\ emitted[2].ok /\ emitted[2].arg = u
        /\ emitted[3].arg = 1
        /\ activeRooms[r].users[u].micIndex = 1
        /\ activeRooms[r].users[v].in /\ activeRooms[r].users[v].micIndex = 2
        /\ v \in StageIds(activeRooms[r])
\* C7: requestMicAscent of a room member reports the first that applies of:
\* mic lock set and requester not staff; canMicAscent false; already on stage;
\* no free index. A refused request changes neither the room nor the stored
\* stage and sends one failed moderationUpdate, to the requesting connection.
Locked(room, u) == room.micLock /\ room.users[u].role \notin {"admin", "moderator"}
Prevented(room, u) == ~room.users[u].canMicAscent
Staged(room, u) == \E i \in 1..Len(room.stageUsers) : room.stageUsers[i].id = u
Full(room) == \A k \in 1..NumMics : \E i \in 1..Len(room.stageUsers) : room.stageUsers[i].micIndex = k

AscentRefusalOrder ==
    [][\A c \in Conns, r \in Rooms, u \in Users :
         (activeRooms[r].exists /\ activeRooms[r].users[u].in /\ RequestMicAscent(c, r, u)) =>
            LET room == activeRooms[r]
                refused == Locked(room, u) \/ Prevented(room, u) \/ Staged(room, u) \/ Full(room)
                answer == emitted'[Len(emitted')]
            IN /\ Locked(room, u) => answer.msg = "micLocked"
               /\ (~Locked(room, u) /\ Prevented(room, u)) => answer.msg = "ascentPrevented"
               /\ (~Locked(room, u) /\ ~Prevented(room, u) /\ Staged(room, u)) =>
                      answer.msg = "alreadyOnStage"
               /\ (~Locked(room, u) /\ ~Prevented(room, u) /\ ~Staged(room, u) /\ Full(room)) =>
                      answer.msg = "noFreeMic"
               /\ refused =>
                    /\ UNCHANGED <<activeRooms, roomStore>>
                    /\ Len(emitted') = 1
                    /\ answer.ev = "moderationUpdate" /\ answer.action = "micUp"
                    /\ ~answer.ok /\ answer.to = {c}
               /\ ~refused => activeRooms' # activeRooms]_vars

\* C7 witness: a member who is on the stage and barred from ascending asked
\* again while the mics were locked, and was told about the lock
LockReportedFirst ==
    \E c \in Conns, r \in Rooms, u \in Users :
        /\ activeRooms[r].exists /\ activeRooms[r].users[u].in
        /\ Locked(activeRooms[r], u)
        /\ Prevented(activeRooms[r], u)
        /\ Staged(activeRooms[r], u)
        /\ Len(emitted) = 1
        /\ emitted[1].action = "micUp" /\ emitted[1].msg = "micLocked"
        /\ emitted[1].arg = u /\ emitted[1].to = {c}
\* C8: when the socket of a connection closes, the user who joined through it
\* (the connection's own user in SpecLobby) is a member of no room once the
\* disconnect handler has run, as after exitRoom.
DisconnectLeavesRoom ==
    [][\A c \in Conns :
         Disconnect(c) =>
            \A r \in Rooms : ~(activeRooms'[r].exists /\ activeRooms'[r].users[c].in)]_vars
\* C9: when no handler is suspended, every room in the active-room table has
\* at least one member.
NoEmptyRoom ==
    tasks = {} => \A r \in Rooms : activeRooms[r].exists => Members(activeRooms[r]) # {}
\* C10: once the admin's ban of a registered member X has succeeded, X is in
\* no member map and on no stage, X's stored profile says isBanned, X's
\* connection was sent bannedFromApp and is closed, and every connection still
\* in the room was sent userLeft(X) exactly once by the handler.
UserLeftCount(d, x) ==
    Cardinality({j \in 1..Len(emitted) :
                   emitted[j].ev = "userLeft" /\ emitted[j].arg = x /\ d \in emitted[j].to})

BanOutcome ==
    \A i \in 1..Len(emitted) :
      (/\ emitted[i].ev = "moderationUpdate" /\ emitted[i].action = "ban" /\ emitted[i].ok
       /\ emitted[i].to = {AdminConn}
       /\ socketToUser[AdminConn] = 1
       /\ emitted[i].arg # 1
       /\ userSockets[emitted[i].arg] # None) =>
         LET x == emitted[i].arg
             xc == userSockets[x]
         IN /\ \A r \in Rooms : x \notin Members(activeRooms[r]) /\ x \notin StageIds(activeRooms[r])
            /\ profiles[x].isBanned
            /\ \E j \in 1..Len(emitted) : emitted[j].ev = "bannedFromApp" /\ emitted[j].to = {xc}
            /\ ~connected[xc]
            /\ \A r \in Rooms : \A d \in Group(r) \ {xc} : UserLeftCount(d, x) = 1
\* C11: a kick that removes another member X from the room also takes X's
\* connection out of the room's broadcast group, sends that connection
\* kickedFromRoom and no bannedFromApp, leaves it open, and leaves X on no
\* stage of the room.  (X's connection is the one X joined through.)
KickOutcome ==
    [][\A c \in Conns, r \in Rooms, x \in Users :
         (/\ ModerateUser(c, r, x, "kick")
          /\ x # socketToUser[c]
          /\ x \in Members(activeRooms[r])
          /\ x \notin Members(activeRooms'[r])) =>
            /\ x \notin StageIds(activeRooms'[r])
            /\ r \notin joined'[x]
            /\ \E i \in 1..Len(emitted') :
                  emitted'[i].ev = "kickedFromRoom" /\ emitted'[i].to = {x}
            /\ \A i \in 1..Len(emitted') : emitted'[i].ev # "bannedFromApp"
            /\ \A i \in 1..Len(emitted') :
                  emitted'[i].ev \in {"userLeft", "roomStateUpdate", "chatMessage"} =>
                     x \notin emitted'[i].to
            /\ connected'[x]]_vars
\* C12: the handler step that reports a moderation action as successful sends
\* exactly one roomStateUpdate and exactly one system chatMessage, both to
\* the room's broadcast group; the step that reports a failure sends nothing
\* but the failed moderationUpdate, to one connection.
ModerationKinds ==
    {"mute", "unmute", "kick", "ban", "assignModerator", "removeModerator",
     "muteAllUsers", "other"}

CountOf(ev) == Cardinality({j \in 1..Len(emitted) : emitted[j].ev = ev})

ModerationBroadcasts ==
    \A i \in 1..Len(emitted) :
      (emitted[i].ev = "moderationUpdate" /\ emitted[i].action \in ModerationKinds) =>
         IF emitted[i].ok
         THEN /\ CountOf("roomStateUpdate") = 1
              /\ CountOf("chatMessage") = 1
              /\ \E r \in Rooms :
                   \A j \in 1..Len(emitted) :
                     emitted[j].ev \in {"roomStateUpdate", "chatMessage"} =>
                        emitted[j].to = Group(r)
         ELSE /\ Len(emitted) = 1
              /\ Cardinality(emitted[i].to) = 1

\* C12 witness: a role change has just been reported as successful to the
\* moderator who asked for it, with another member listening in the room
RoleChangeReported ==
    \E r \in Rooms :
        /\ Len(emitted) > 0
        /\ emitted[Len(emitted)].ev = "moderationUpdate"
        /\ emitted[Len(emitted)].action = "assignModerator"
        /\ emitted[Len(emitted)].ok
        /\ emitted[Len(emitted)].to # {}
        /\ Cardinality(Group(r)) >= 2
\* C13: a muteAllUsers accepted from actor A sets isMuted on every member
\* other than A whose role is member, and leaves the isMuted flag of A and
\* of every moderator and admin as it was.
MuteAllFrame ==
    [][\A c \in Conns, r \in Rooms :
         (/\ MuteAllUsers(c, r)
          /\ Requester(c, r).in
          /\ Requester(c, r).role \in {"moderator", "admin"}) =>
            \A u \in Users :
               LET before == activeRooms[r].users[u]
                   after == activeRooms'[r].users[u]
               IN /\ after.in = before.in
                  /\ (before.in /\ u # socketToUser[c] /\ before.role = "member") => after.isMuted
                  /\ (u = socketToUser[c] \/ before.role \in {"moderator", "admin"}) =>
                        after.isMuted = before.isMuted]_vars

\* C13 witness: the moderator's muteAllUsers has just been accepted with a
\* plain member and the admin both in the room; the member is muted, the
\* admin and the moderator are not
MutedAllButStaff ==
    \E c \in Conns, r \in Rooms :
        /\ Len(emitted) > 0
        /\ emitted[Len(emitted)].action = "muteAllUsers" /\ emitted[Len(emitted)].ok
        /\ emitted[Len(emitted)].to = {c}
        /\ Requester(c, r).role = "moderator" /\ ~Requester(c, r).isMuted
        /\ \E u, v \in Members(activeRooms[r]) :
              /\ activeRooms[r].users[u].role = "member" /\ activeRooms[r].users[u].isMuted
              /\ activeRooms[r].users[v].role = "admin" /\ ~activeRooms[r].users[v].isMuted
\* C14: exitRoom leaves its user outside the room, and an exitRoom processed
\* while its user is outside the room changes nothing and emits nothing; so a
\* second exitRoom right after the first adds no state change and no userLeft.
Outside(rooms, c, r) ==
    \/ socketToUser[c] = None
    \/ ~rooms[r].exists
    \/ ~rooms[r].users[socketToUser[c]].in

ExitRoomIdempotent ==
    [][\A c \in Conns, r \in Rooms :
         ExitRoom(c, r) =>
            /\ Outside(activeRooms', c, r)
            /\ Outside(activeRooms, c, r) =>
                  /\ UNCHANGED <<activeRooms, userSockets, socketToUser, connected, joined,
                                 profiles, roomStore, tasks>>
                  /\ emitted' = <<>>]_vars

\* C14 witness: a registered user's exitRoom has just removed them from a room
\* that others remain in, and their connection is still open to send it again
ExitedOnce ==
    \E c \in Conns, r \in Rooms :
        /\ connected[c] /\ socketToUser[c] # None
        /\ Len(emitted) = 3
        /\ emitted[1].ev = "userLeft" /\ emitted[1].arg = socketToUser[c]
        /\ emitted[1].to # {}
        /\ r \notin joined[c]
        /\ activeRooms[r].exists /\ Outside(activeRooms, c, r)
\* C15: when joinRoom completes for a user who is already a member of the
\* room, the member set and that member's isMuted, isOnStage and micIndex are
\* as before, and no userJoined is broadcast.
RejoinIsRefresh ==
    [][\A t \in tasks :
         (/\ JoinAddUser(t)
          /\ activeRooms[t.r].exists
          /\ activeRooms[t.r].users[t.u].in) =>
            /\ Members(activeRooms'[t.r]) = Members(activeRooms[t.r])
            /\ activeRooms'[t.r].users[t.u].isMuted = activeRooms[t.r].users[t.u].isMuted
            /\ activeRooms'[t.r].users[t.u].isOnStage = activeRooms[t.r].users[t.u].isOnStage
            /\ activeRooms'[t.r].users[t.u].micIndex = activeRooms[t.r].users[t.u].micIndex
            /\ activeRooms'[t.r].stageUsers = activeRooms[t.r].stageUsers
            /\ \A i \in 1..Len(emitted') : emitted'[i].ev # "userJoined"]_vars
\* C16: a room's message history never holds more than the cap, and a message
\* appended to a full history drops the oldest entry and keeps the others in
\* their order.
HistoryCapped ==
    [][\A r \in Rooms :
         /\ Len(hubRooms'[r].messages) <= HistoryCap
         /\ hubRooms'[r].messages # hubRooms[r].messages =>
              LET old == hubRooms[r].messages
                  new == hubRooms'[r].messages
              IN IF Len(old) < HistoryCap
                 THEN /\ Len(new) = Len(old) + 1
                      /\ SubSeq(new, 1, Len(old)) = old
                 ELSE /\ Len(new) = HistoryCap
                      /\ SubSeq(new, 1, HistoryCap - 1) = SubSeq(old, 2, HistoryCap)
                      /\ new[HistoryCap].id = hubClock']_vars

\* C16 witness: the history is full and its oldest entry has been evicted
OldestEvicted ==
    \E r \in Rooms :
        /\ Len(hubRooms[r].messages) = HistoryCap
        /\ hubRooms[r].messages[1].id > 1
        /\ hubSent # <<>> /\ hubSent[1].ev = "message"
\* C17: a debounce timer is pending only while the signal is across the
\* threshold from the committed status: a buffer that brings the volume back
\* cancels the timer, so a crossing that returns in time commits nothing and
\* sends nothing, in both directions.
DebounceCancels ==
    timers # {} =>
       \/ ~isSpeaking /\ volume > speakingThreshold
       \/ isSpeaking /\ volume <= speakingThreshold
\* C18 as stated: at most one debounce timer is pending, each firing flips
\* the committed status and sends exactly one speaking event with the new
\* value, and the speaking events sent strictly alternate.
FiringFlips ==
    \A t \in timers :
       TimerFire(t) =>
          /\ isSpeaking' = ~isSpeaking
          /\ speakingLog' = Append(speakingLog, [value |-> isSpeaking', by |-> "timer"])

SpeakingEventsAlternate ==
    [][/\ Cardinality(timers') <= 1
       /\ FiringFlips
       /\ \A i \in 2..Len(speakingLog') :
             speakingLog'[i].value # speakingLog'[i - 1].value]_vars

\* C18: at most one debounce timer is pending, each firing flips the
\* committed status and sends exactly one speaking event with the new value,
\* and every event sent by a firing differs from the event sent before it;
\* stopAudioProcessing sends one more event, false, whatever was sent last.
FiringEventsAlternate ==
    [][/\ Cardinality(timers') <= 1
       /\ FiringFlips
       /\ \A i \in 1..Len(speakingLog') :
             speakingLog'[i].by = "timer" =>
                speakingLog'[i].value # (IF i = 1 THEN FALSE ELSE speakingLog'[i - 1].value)
       /\ \A i \in 1..Len(speakingLog') :
             speakingLog'[i].by = "stop" => ~speakingLog'[i].value]_vars

\* C18 witness: two firings in a row, the first committing true and the second
\* false, with no timer left pending
FiredTwice ==
    /\ Len(speakingLog) >= 2
    /\ speakingLog[Len(speakingLog) - 1] = [value |-> TRUE, by |-> "timer"]
    /\ speakingLog[Len(speakingLog)] = [value |-> FALSE, by |-> "timer"]
    /\ ~isSpeaking
    /\ timers = {}
\* C19: a signaling message for user T goes out once, with the payload it
\* came with, to the connection registered for T and to no other; with no
\* connection registered for T nothing is sent, to the sender either; the
\* server's state is the same before and after.
SignalRelayed ==
    [][/\ \A c \in Conns, to \in Users, p \in 1..NumPayloads :
            WebrtcSignal(c, to, p) =>
               /\ UNCHANGED <<activeRooms, userSockets, socketToUser, connected, joined,
                              profiles, roomStore, tasks>>
               /\ IF userSockets[to] # None /\ connected[userSockets[to]]
                  THEN /\ Len(emitted') = 1
                       /\ emitted'[1].ev = "webrtcSignal"
                       /\ emitted'[1].to = {userSockets[to]}
                       /\ emitted'[1].arg = p
                  ELSE \A i \in 1..Len(emitted') : emitted'[i].to = {}
       /\ \A c \in Conns, k \in RelayKinds, to \in Users, p \in 1..NumPayloads :
            HubRelay(c, k, to, p) =>
               /\ UNCHANGED <<activeUsers, hubRooms, hubClock>>
               /\ IF \E d \in Conns : activeUsers[d].on /\ activeUsers[d].userId = to
                  THEN /\ Len(hubSent') = 1
                       /\ hubSent'[1].ev = k
                       /\ activeUsers[CHOOSE d \in hubSent'[1].to : TRUE].userId = to
                       /\ Cardinality(hubSent'[1].to) = 1
                       /\ hubSent'[1].arg = p
                  ELSE hubSent' = <<>>]_vars

\* C19 witness: the last message was forwarded to the open connection of a
\* registered user other than the sender's
SignalDelivered ==
    \E d \in Conns :
        /\ Len(emitted) = 1
        /\ emitted[1].ev = "webrtcSignal" /\ emitted[1].to = {d}
        /\ emitted[1].arg = NumPayloads
        /\ connected[d] /\ socketToUser[d] # None /\ userSockets[socketToUser[d]] = d
        /\ \E e \in Conns \ {d} : connected[e] /\ socketToUser[e] # None

\* C20: a signaling message is forwarded only when its sender and its target
\* are members of one and the same room.
RelayRoomScoped ==
    [][/\ \A c \in Conns, to \in Users, p \in 1..NumPayloads :
            (WebrtcSignal(c, to, p) /\ \E i \in 1..Len(emitted') : emitted'[i].to # {}) =>
               \E r \in Rooms :
                  /\ socketToUser[c] # None
                  /\ {socketToUser[c], to} \subseteq Members(activeRooms[r])
       /\ \A c \in Conns, k \in RelayKinds, to \in Users, p \in 1..NumPayloads :
            (HubRelay(c, k, to, p) /\ hubSent' # <<>>) =>
               \E r \in Rooms :
                  /\ activeUsers[c].roomId = r
                  /\ \E d \in hubSent'[1].to : activeUsers[d].roomId = r]_vars
\* C26: once a user is banned, no joinRoom for that user, on any connection
\* and into any room, makes the user a member of a room.
BanIsDurable ==
    [][\A t \in tasks :
          (JoinAddUser(t) /\ profiles[t.u].isBanned) =>
             \A r \in AllRooms : t.u \notin Members(activeRooms'[r])]_vars

\* C29: at every moment a user is in the member map of at most one room, on
\* either server.
OneRoomPerUser ==
    \A u \in Users :
        /\ Cardinality({r \in AllRooms : activeRooms[r].exists
                                         /\ u \in Members(activeRooms[r])}) <= 1
        /\ Cardinality({r \in AllRooms : hubRooms[r].exists /\ u \in hubRooms[r].users}) <= 1
\* C28: requestMicAscent and requestMicDescent change the stage status of no
\* user other than the one bound to the requesting connection.
OwnStageOnly ==
    [][\A c \in Conns, r \in Rooms, u \in Users :
          (RequestMicAscent(c, r, u) \/ RequestMicDescent(c, r, u)) =>
             \A v \in Users :
                (v \in StageIds(activeRooms[r])) # (v \in StageIds(activeRooms'[r]))
                   => socketToUser[c] = v]_vars
\* the handler step answered its sender with a refusal
Refused == \E i \in 1..Len(emitted') : emitted'[i].ev = "moderationUpdate" /\ ~emitted'[i].ok

\* the member object of a moderator with the role replaced by admin
AsAdmin(user) == [user EXCEPT !.role = "admin"]

\* the target's member object when the actor m is seen as an admin
TargetSeen(room, m, u) == IF u = m THEN AsAdmin(room.users[u]) ELSE room.users[u]

\* C25: each privileged handler accepts a request exactly when its acceptance
\* condition holds, and in every room state every acceptance condition that
\* holds for an actor whose role is moderator holds, with the same target and
\* arguments, when the actor's role is admin.
RoleMonotonic ==
    [][/\ \A c \in Conns, r \in Rooms :
            LET room == activeRooms[r]
                requester == Requester(c, r)
            IN /\ \A lock \in BOOLEAN :
                     ToggleMicLock(c, r, lock) => (~Refused <=> StaffAccepted(room, requester))
               /\ MuteAllUsers(c, r) => (~Refused <=> StaffAccepted(room, requester))
               /\ \A u \in Users, p \in BOOLEAN :
                     PreventMicAscent(c, r, u, p) =>
                        (~Refused <=> TargetedStaffAccepted(room, requester, room.users[u]))
               /\ \A u \in Users, i \in 0..(NumMics + 1) :
                     TransferUserMic(c, r, u, i) =>
                        (~Refused <=> TransferAccepted(room, requester, room.users[u], u, i))
               /\ \A u \in Users, a \in Actions :
                     ModerateUser(c, r, u, a) =>
                        (~Refused <=> ModerateAccepted(room, requester, room.users[u], a))
       /\ \A r \in Rooms, m \in Users :
            LET room == activeRooms'[r]
                actor == room.users[m]
            IN (room.exists /\ actor.in /\ actor.role = "moderator") =>
                 /\ StaffAccepted(room, actor) => StaffAccepted(room, AsAdmin(actor))
                 /\ \A u \in Users :
                      LET target == TargetSeen(room, m, u)
                      IN /\ TargetedStaffAccepted(room, actor, room.users[u])
                             => TargetedStaffAccepted(room, AsAdmin(actor), target)
                         /\ \A i \in 0..(NumMics + 1) :
                               TransferAccepted(room, actor, room.users[u], u, i)
                                  => TransferAccepted(room, AsAdmin(actor), target, u, i)
                         /\ \A a \in Actions :
                               ModerateAccepted(room, actor, room.users[u], a)
                                  => ModerateAccepted(room, AsAdmin(actor), target, a)]_vars

\* C25 witness: a moderator's moderateUser request on a member has just been
\* accepted, in a room that also has an admin
ModeratorAccepted ==
    \E r \in Rooms, m, u, a \in Users :
        /\ activeRooms[r].exists
        /\ activeRooms[r].users[m].in /\ activeRooms[r].users[m].role = "moderator"
        /\ activeRooms[r].users[a].in /\ activeRooms[r].users[a].role = "admin"
        /\ activeRooms[r].users[u].in /\ activeRooms[r].users[u].isMuted
        /\ socketToUser[m] = m
        /\ \E i \in 1..Len(emitted) :
              /\ emitted[i].ev = "moderationUpdate" /\ emitted[i].ok
              /\ emitted[i].action = "mute" /\ emitted[i].to = {m} /\ emitted[i].arg = u
\* a handler that has changed the room and is suspended before its broadcast
AwaitingBroadcast(r) ==
    \E t \in tasks : t.kind \in {"preventMicAscent", "role"} /\ t.r = r

\* C24: within a room the state-change broadcasts go out in the order in which
\* the changes were applied: no handler changes the room and broadcasts the
\* change while an earlier change of that room still awaits its broadcast.
BroadcastsInOrder ==
    [][\A r \in Rooms :
          (/\ activeRooms'[r] # activeRooms[r]
           /\ \E i \in 1..Len(emitted') :
                 /\ emitted'[i].ev \in {"micLockUpdate", "roomStateUpdate"}
                 /\ emitted'[i].to # {})
          => ~AwaitingBroadcast(r)]_vars
\* C27: whatever other users of the room do while a joinRoom awaits the store,
\* each continuation of the join finds the room in the table, and the last one
\* leaves the joiner in the member map of the room that is in the table.
JoinCompletes ==
    [][\A t \in tasks :
          /\ JoinLoadMessages(t) => activeRooms[t.r].exists
          /\ JoinAddUser(t) => /\ activeRooms[t.r].exists
                               /\ t.u \in Members(activeRooms'[t.r])]_vars
\* C21: no two browsers have both sent an offer to each other for the link
\* between them.
NoGlare ==
    \A p, q \in Peers :
        p # q => ~(/\ peerConnections[p][q].state = "have-local-offer"
                   /\ peerConnections[q][p].state = "have-local-offer")

\* C22: every browser that held a link to a browser when that browser switched
\* its microphone off eventually holds no link to it, unless the microphone is
\* switched on again first.
MicOffClosesLinks ==
    \A p, q \in Peers :
        (q \in switchedOff[p]) ~> (peerConnections[q][p].state = "none" \/ micWanted[p])

\* the browser is setting up its link to the sender: the sender's offer is
\* being handled, or the link exists and its exchange is not over
SettingUp(p, senderId) ==
    \/ \E j \in jobs : j.p = p /\ j.q = senderId /\ j.kind \in {"getLocalStream", "answer"}
    \/ peerConnections[p][senderId].state \in {"new", "have-local-offer", "have-remote-offer"}

\* C23: a candidate that arrives while the link to its sender is being set up
\* is kept: the link has it once the candidate was handled.
CandidatesKept ==
    [][\A p \in Peers :
          (HandleIceCandidate(p) /\ SettingUp(p, Head(inbox[p]).from))
             => peerConnections'[p][Head(inbox[p]).from].ice]_vars

\* C30: the microphone is captured only while the user has it switched on.
CaptureOnlyWhenOn ==
    \A p \in Peers : localStream[p] => micWanted[p]
====
